---- MODULE Spec2Model ----
(***************************************************************************)
(* Turn/action engine, inventory component and creature AI of the          *)
(* Traditional-Roguelike repository, modelled as a state machine.          *)
(*                                                                         *)
(* Coordinates follow the source: x indexes rows (0 .. height-1) and y     *)
(* indexes columns (0 .. width-1); the grid is tiles[x][y].                *)
(***************************************************************************)
EXTENDS Integers, Sequences, FiniteSets, TLC

VARIABLES
    tiles,      \* floor.tiles: tiles[x][y] is TRUE iff the tile is walkable
    entities,   \* floor.entities of the current floor, an ordered list
    inventory,  \* engine.player.inventory.items, an ordered list of items
    max_slots,  \* engine.player.inventory.max_slots
    equipped,   \* ids of the inventory items that are currently equipped
    turns,      \* engine.save_meta["turns"]
    slayed,     \* engine.save_meta["slayed"]
    fatal,      \* "none", or the uncaught exception that ended the program
    act,        \* the last command or activation that was resolved
    ret,        \* the value its perform() returned (turnable)
    msgs,       \* the messages it appended to engine.message_log
    rolls,      \* the random rolls it made, in order
    hits,       \* the damage values it passed to take_damage, in order
    result,     \* the value returned by the last Inventory method call
    dungeon,    \* engine.dungeon: floor indexes and the floors generated
    gamestate,  \* engine.gamestate: the state's class and its cursor
    generated,  \* the depths generate_next_floor was called for, in order
    weapon,     \* the weapon the player wields, or None
    builder,    \* the FloorBuilder at work and the floor it is building
    ui          \* the menu screens: the gamestate object and what it refers to

vars == <<tiles, entities, inventory, max_slots, equipped, turns, slayed, fatal,
          act, ret, msgs, rolls, hits, result, dungeon, gamestate, generated,
          weapon, builder, ui>>

-----------------------------------------------------------------------------
(* Bounds of the model.                                                    *)

FloorHeight == 2       \* rows of the floor grid
FloorWidth == 3        \* columns of the floor grid
NumSlots == 1          \* Inventory(num_slots) of the player's inventory
MaxTurns == 2          \* player commands stop once this many turns are recorded
StartHealth == 2       \* health of every fighter when the model starts
BaseDamage == 1        \* Fighter.damage of every fighter
PlayerExperienceDrop == 1  \* experience_drop of the player's leveler
LastFloor == 2         \* index of the last floor of the dungeon
MaxDungeonTurns == 4   \* turn limit of the commands of SpecDungeon
MaxCreatureTurns == 3  \* turn limit of the commands of SpecCreatures
MaxCursor == 1         \* a menu cursor stays within -MaxCursor..MaxCursor
CorridorLength == 10   \* cells of the corridor of SpecCorridor
MaxUses == 1           \* uses_left of a staff when the model starts
BuilderHeight == 5     \* floor_height of the floor a FloorBuilder builds
BuilderWidth == 5      \* floor_width of the floor a FloorBuilder builds
RoomSide == 1          \* width and height asked for every room
NumRooms == 4          \* the largest num_rooms asked of place_rooms

(* Program constants.                                                      *)

AGRO_RANGE == 8
MaxFailedAttempts == 250
EnemyExperienceDrop == 5

\* Fighter.critical_damage: the damage tier of a critical hit.
CriticalDamage == BaseDamage + 1

PLAYER_ID == 0
NONE == 0              \* index standing for Python's None in list lookups

\* Python's None as a value.
None == [none |-> TRUE]

-----------------------------------------------------------------------------
(* Generic list helpers (Python list semantics).                           *)

\* list.remove(list[i]) by position: the list without its i-th element.
RemoveAt(seq, i) ==
    [k \in 1..(Len(seq) - 1) |-> IF k < i THEN seq[k] ELSE seq[k + 1]]

\* list.insert before position i (1-based); i = Len+1 appends.
InsertAt(seq, i, e) ==
    [k \in 1..(Len(seq) + 1) |->
        IF k < i THEN seq[k] ELSE IF k = i THEN e ELSE seq[k - 1]]

\* The least index of a set of indexes (the first match of a loop over a
\* list), or NONE.
FirstIndex(S) ==
    IF S = {} THEN NONE ELSE CHOOSE k \in S : \A j \in S : k <= j

Abs(n) == IF n < 0 THEN -n ELSE n

-----------------------------------------------------------------------------
(* Floor queries.                                                          *)

\* Floor.blocking_entity_at: index of the first blocking entity on (x, y).
blocking_entity_at(ents, x, y) ==
    LET Here(e) == e.x = x /\ e.y = y /\ e.blocking
    IN  FirstIndex({ k \in 1..Len(ents) : Here(ents[k]) })

\* Index of the entity with the given id in a list, or NONE.
IndexOfId(ents, id) ==
    LET Is(e) == e.id = id
    IN  FirstIndex({ k \in 1..Len(ents) : Is(ents[k]) })

\* Floor.items: the entities that are Item instances, in list order.
IsItem(e) == e.kind = "item"

\* Floor.add_entity: the entity is put into the list by render-order tier.
\* Corpses go to the back of the list, everything else stays in front of the
\* first corpse.
add_entity(ents, e) ==
    LET IsCorpse(o) == o.render_order = "CORPSE"
        c == FirstIndex({ k \in 1..Len(ents) : IsCorpse(ents[k]) })
    IN  IF e.render_order = "CORPSE" \/ c = NONE
        THEN Append(ents, e)
        ELSE InsertAt(ents, c, e)

-----------------------------------------------------------------------------
(* The engine state an action works on, as one record, so that an action   *)
(* that calls another one (BumpAction -> MeleeAction / WalkAction, the AI   *)
(* -> BumpAction) is the composition of the two.  calls lists the perform() *)
(* methods run, dx and dy the direction of the bump made, if any, and mid    *)
(* the floor indexes in the middle of a descent: after the current index    *)
(* was raised and before a floor is generated.                              *)

World ==
    [entities |-> entities, inventory |-> inventory, equipped |-> equipped,
     turns |-> turns, slayed |-> slayed, fatal |-> fatal,
     ret |-> FALSE, msgs |-> <<>>, rolls |-> <<>>, hits |-> <<>>,
     calls |-> <<>>, dx |-> 0, dy |-> 0,
     tiles |-> tiles, dungeon |-> dungeon, gamestate |-> gamestate,
     generated |-> generated, mid |-> None, weapon |-> weapon]

IsPlayer(e) == e.id = PLAYER_ID

-----------------------------------------------------------------------------
(* Components the actions call.                                            *)

\* Fighter.is_dead
is_dead(e) == e.health <= 0

\* Fighter.take_damage: the damage is subtracted from the health; a fighter
\* whose health reaches 0 or below is marked dead: it becomes a non-blocking
\* corpse and loses its AI.
take_damage(e, damage) ==
    LET h == e.health - damage
    IN  IF h <= 0
        THEN [e EXCEPT !.health = h, !.blocking = FALSE,
                       !.render_order = "CORPSE", !.ai = "none"]
        ELSE [e EXCEPT !.health = h]

\* Leveler.absorb
absorb(e, incoming_experience) ==
    [e EXCEPT !.experience = @ + incoming_experience]

\* Entity.move
move(e, dx, dy) == [e EXCEPT !.x = @ + dx, !.y = @ + dy]

-----------------------------------------------------------------------------
(* MeleeAction.perform.  i is the initiator's index in the entity list,     *)
(* rng the outcomes of the rolls the fighter would draw.                    *)

\* One iteration of the damage loop: critical roll, take_damage, log line.
MeleeHit(w, i, t, did_critical) ==
    LET initiator == w.entities[i]
        target == w.entities[t]
        damage_given == IF did_critical THEN initiator.critical_damage
                                        ELSE initiator.damage
    IN  [w EXCEPT
            !.rolls = Append(@, <<"critical", did_critical>>),
            !.hits = Append(@, damage_given),
            !.entities[t] = take_damage(@, damage_given),
            !.msgs = IF IsPlayer(target) THEN Append(@, "hits you")
                     ELSE IF IsPlayer(initiator) THEN Append(@, "You hit")
                     ELSE @]

\* The block under "if target_fighter.is_dead".
MeleeSlain(w, i, t) ==
    LET initiator == w.entities[i]
        target == w.entities[t]
        experience_drop == target.experience_drop
        removed == RemoveAt(w.entities, t)
        readded == add_entity(removed, target)
        ii == IndexOfId(readded, initiator.id)
    IN  [w EXCEPT
            !.entities = [readded EXCEPT
                             ![ii] = absorb(@, experience_drop)],
            !.slayed = IF IsPlayer(initiator) THEN @ + 1 ELSE @,
            !.msgs = IF IsPlayer(initiator)
                     THEN @ \o <<"has perished!", "You slayed">>
                     ELSE Append(@, "has perished!")]

\* The block under "if not did_hit": only a log line, for a fight the player
\* is part of.
MeleeMiss_StillHits(w, i, t) ==
    [w EXCEPT !.hits = Append(@, w.entities[i].damage),
              !.entities[t] = take_damage(@, w.entities[i].damage)]

MeleeMiss(w, i, t) ==
    [w EXCEPT
        !.msgs = IF IsPlayer(w.entities[t]) THEN Append(@, "missed you")
                 ELSE IF IsPlayer(w.entities[i]) THEN Append(@, "You missed")
                 ELSE @]

MeleeAction(w, i, dx, dy, rng) ==
    LET initiator == w.entities[i]
        t == blocking_entity_at(w.entities, initiator.x + dx, initiator.y + dy)
    IN  IF t = NONE
        THEN [w EXCEPT !.fatal = "AttributeError",
                       !.calls = Append(@, "MeleeAction")]
        ELSE
        LET target == w.entities[t]
            byPlayer == IsPlayer(initiator)
            onPlayer == IsPlayer(target)
            w1 == [w EXCEPT !.ret = TRUE,
                            !.calls = Append(@, "MeleeAction"),
                            !.turns = IF byPlayer THEN @ + 1 ELSE @,
                            !.rolls = Append(@, <<"hit", rng.did_hit>>)]
        IN  IF ~rng.did_hit
            THEN MeleeMiss(w1, i, t)
            ELSE
            LET w2 == [w1 EXCEPT
                        !.rolls = Append(@, <<"double_hit",
                                              rng.did_double_hit>>),
                        !.msgs = IF rng.did_double_hit /\ byPlayer
                                 THEN Append(@, "Double hit!") ELSE @]
                w3 == MeleeHit(w2, i, t, rng.did_critical[1])
            IN  IF ~onPlayer /\ ~byPlayer
                THEN w3     \* "else: return turnable" inside the loop
                ELSE
                LET w4 == IF rng.did_double_hit
                          THEN MeleeHit(w3, i, t, rng.did_critical[2])
                          ELSE w3
                IN  IF is_dead(w4.entities[t])
                    THEN MeleeSlain(w4, i, t)
                    ELSE w4

-----------------------------------------------------------------------------
(* WalkAction.perform                                                       *)

\* Floor.height and Floor.width: the dimensions the tile grid was built with.
height(t) == Cardinality(DOMAIN t)

width(t) == Cardinality(DOMAIN t[0])

RecordsTurn_Always(entity) == TRUE

\* "if isinstance(self.entity, Player)": the walk is recorded as a turn.
RecordsTurn(entity) == entity.kind = "player"

WalkAction_NoTileCheck(w0, i, dx, dy) ==
    LET w == [w0 EXCEPT !.calls = Append(@, "WalkAction")]
        entity == w.entities[i]
        desired_x == entity.x + dx
        desired_y == entity.y + dy
    IN  IF (desired_x > height(tiles) - 1 \/ desired_x < 0)
           \/ (desired_y > width(tiles) - 1 \/ desired_y < 0)
        THEN [w EXCEPT !.ret = FALSE, !.msgs = Append(@, "Out of bounds")]
        ELSE IF blocking_entity_at(w.entities, desired_x, desired_y) # NONE
        THEN [w EXCEPT !.ret = FALSE]
        ELSE [w EXCEPT !.ret = TRUE,
                       !.entities[i] = move(@, dx, dy),
                       !.turns = IF RecordsTurn(entity) THEN @ + 1 ELSE @]

WalkAction(w0, i, dx, dy) ==
    LET w == [w0 EXCEPT !.calls = Append(@, "WalkAction")]
        entity == w.entities[i]
        desired_x == entity.x + dx
        desired_y == entity.y + dy
    IN  IF (desired_x > height(tiles) - 1 \/ desired_x < 0)
           \/ (desired_y > width(tiles) - 1 \/ desired_y < 0)
        THEN [w EXCEPT !.ret = FALSE, !.msgs = Append(@, "Out of bounds")]
        ELSE IF ~tiles[desired_x][desired_y]
        THEN [w EXCEPT !.ret = FALSE,
                       !.msgs = IF IsPlayer(entity)
                                THEN Append(@, "That way is blocked") ELSE @]
        ELSE IF blocking_entity_at(w.entities, desired_x, desired_y) # NONE
        THEN [w EXCEPT !.ret = FALSE]
        ELSE [w EXCEPT !.ret = TRUE,
                       !.entities[i] = move(@, dx, dy),
                       !.turns = IF RecordsTurn(entity) THEN @ + 1 ELSE @]

-----------------------------------------------------------------------------
(* BumpAction.perform                                                       *)

\* The test that makes a bump a swap of places: the bumper is the player and
\* the occupant's "ai" component is an AllyAI.
SwapsPlaces_AnyOccupant(entity, blocking_entity) == IsPlayer(entity)

SwapsPlaces_AnyBumper(entity, blocking_entity) == blocking_entity.ai = "ally"

SwapsPlaces(entity, blocking_entity) ==
    IsPlayer(entity) /\ blocking_entity.ai = "ally"

BumpAction(w0, i, dx, dy, no_hit, rng) ==
    LET w == [w0 EXCEPT !.calls = Append(@, "BumpAction"),
                        !.dx = dx, !.dy = dy]
        entity == w.entities[i]
        desired_x == entity.x + dx
        desired_y == entity.y + dy
        b == blocking_entity_at(w.entities, desired_x, desired_y)
    IN  IF b # NONE /\ ~no_hit
        THEN IF SwapsPlaces(entity, w.entities[b])
             THEN [w EXCEPT
                     !.ret = TRUE,
                     !.entities[i] = [@ EXCEPT !.x = w.entities[b].x,
                                               !.y = w.entities[b].y],
                     !.entities[b] = [@ EXCEPT !.x = entity.x,
                                               !.y = entity.y]]
             ELSE MeleeAction(w, i, dx, dy, rng)
        ELSE WalkAction(w, i, dx, dy)

-----------------------------------------------------------------------------
(* Inventory (components/component.py).  Each method is an operator from   *)
(* the item list to the new item list and the returned value.              *)

\* Inventory.size
size(items) == Len(items)

add_item_NoCapacityCheck(items, item) ==
    [items |-> Append(items, item), returned |-> None]

\* Inventory.add_item: returns None on both paths.
add_item(items, item) ==
    IF size(items) >= max_slots
    THEN [items |-> items, returned |-> None]
    ELSE [items |-> Append(items, item), returned |-> None]

\* Inventory.add_items: pops from the back of the argument list while there
\* is room; returns the (shortened) argument list as soon as the inventory is
\* full with loop iterations left, and None when the loop runs to its end.
RECURSIVE add_items_loop_FrontFirst(_, _, _)
add_items_loop_FrontFirst(items, arg, n) ==
    IF n = 0
    THEN [items |-> items, returned |-> None]
    ELSE IF size(items) >= max_slots
    THEN [items |-> items, returned |-> [list |-> arg]]
    ELSE add_items_loop_FrontFirst(Append(items, arg[1]),
                                   SubSeq(arg, 1, Len(arg) - 1), n - 1)

RECURSIVE add_items_loop(_, _, _)
add_items_loop(items, arg, n) ==
    IF n = 0
    THEN [items |-> items, returned |-> None]
    ELSE IF size(items) >= max_slots
    THEN [items |-> items, returned |-> [list |-> arg]]
    ELSE add_items_loop(Append(items, arg[Len(arg)]),
                        SubSeq(arg, 1, Len(arg) - 1), n - 1)

add_items(items, arg) == add_items_loop(items, arg, Len(arg))

\* Inventory.get_item: Python indexing, negative indices count from the back.
get_item(items, item_idx) ==
    IF item_idx >= 0 /\ item_idx < Len(items)
    THEN [items |-> items, returned |-> [item |-> items[item_idx + 1]]]
    ELSE IF item_idx < 0 /\ -item_idx <= Len(items)
    THEN [items |-> items,
          returned |-> [item |-> items[Len(items) + item_idx + 1]]]
    ELSE [items |-> items, returned |-> None]

\* Inventory.remove_item: the class defines the method twice; the second
\* definition (by list index, list.pop) is the one the class ends up with.
remove_item(items, item_idx) ==
    IF item_idx >= 0 /\ item_idx < Len(items)
    THEN [items |-> RemoveAt(items, item_idx + 1),
          returned |-> [item |-> items[item_idx + 1]]]
    ELSE IF item_idx < 0 /\ -item_idx <= Len(items)
    THEN [items |-> RemoveAt(items, Len(items) + item_idx + 1),
          returned |-> [item |-> items[Len(items) + item_idx + 1]]]
    ELSE [items |-> items, returned |-> None]

\* Inventory.is_equipped
is_equipped(eq, item) == item.id \in eq

-----------------------------------------------------------------------------
(* PickUpItemAction.perform                                                 *)

PickUpItemAction_LeavesItemOnFloor(w0, i) ==
    LET w == [w0 EXCEPT !.calls = Append(@, "PickUpItemAction")]
        entity == w.entities[i]
        Underfoot(e) == IsItem(e) /\ e.x = entity.x /\ e.y = entity.y
        item_to_pick_up == FirstIndex({ k \in 1..Len(w.entities) : Underfoot(w.entities[k]) })
    IN  IF item_to_pick_up = NONE
        THEN [w EXCEPT !.ret = FALSE,
                       !.msgs = Append(@, "Nothing to be picked up here")]
        ELSE IF size(w.inventory) >= max_slots
        THEN [w EXCEPT !.ret = FALSE,
                       !.msgs = IF IsPlayer(entity)
                                THEN Append(@, "There is not enough space")
                                ELSE @]
        ELSE [w EXCEPT
                !.ret = FALSE,
                !.inventory = add_item(@, w.entities[item_to_pick_up]).items,
                !.msgs = Append(@, "You picked up")]

PickUpItemAction_NoCapacityCheck(w0, i) ==
    LET w == [w0 EXCEPT !.calls = Append(@, "PickUpItemAction")]
        entity == w.entities[i]
        Underfoot(e) == IsItem(e) /\ e.x = entity.x /\ e.y = entity.y
        item_to_pick_up == FirstIndex({ k \in 1..Len(w.entities) : Underfoot(w.entities[k]) })
    IN  IF item_to_pick_up = NONE
        THEN [w EXCEPT !.ret = FALSE,
                       !.msgs = Append(@, "Nothing to be picked up here")]
        ELSE [w EXCEPT
                !.ret = FALSE,
                !.entities = RemoveAt(@, item_to_pick_up),
                !.inventory = add_item(@, w.entities[item_to_pick_up]).items,
                !.msgs = Append(@, "You picked up")]

PickUpItemAction(w0, i) ==
    LET w == [w0 EXCEPT !.calls = Append(@, "PickUpItemAction")]
        entity == w.entities[i]
        Underfoot(e) == IsItem(e) /\ e.x = entity.x /\ e.y = entity.y
        item_to_pick_up == FirstIndex({ k \in 1..Len(w.entities) : Underfoot(w.entities[k]) })
    IN  IF item_to_pick_up = NONE
        THEN [w EXCEPT !.ret = FALSE,
                       !.msgs = Append(@, "Nothing to be picked up here")]
        ELSE IF size(w.inventory) >= max_slots
        THEN [w EXCEPT !.ret = FALSE,
                       !.msgs = IF IsPlayer(entity)
                                THEN Append(@, "There is not enough space")
                                ELSE @]
        ELSE [w EXCEPT
                !.ret = FALSE,
                !.entities = RemoveAt(@, item_to_pick_up),
                !.inventory = add_item(@, w.entities[item_to_pick_up]).items,
                !.msgs = Append(@, "You picked up")]

-----------------------------------------------------------------------------
(* DropItemAction.perform.  k is the position in the inventory of the item  *)
(* the action was built with.  The item object itself is passed to          *)
(* Inventory.remove_item, whose surviving definition hands it to list.pop:  *)
(* an Item is no integer, list.pop raises TypeError, and the handler only   *)
(* catches IndexError, so the action ends there.                            *)

DropItemAction(w, i, k) ==
    LET item == w.inventory[k]
        w1 == IF item.equippable /\ is_equipped(w.equipped, item)
              THEN [w EXCEPT !.equipped = @ \ {item.id}]
              ELSE w
    IN  [w1 EXCEPT !.ret = FALSE, !.fatal = "TypeError",
                   !.calls = Append(@, "DropItemAction")]

\* ItemAction.perform on an item with an equippable component (the third
\* branch): Equippable.perform equips an unequipped item and unequips an
\* equipped one; no turn is consumed.
ItemAction(w, i, k) ==
    LET item == w.inventory[k]
    IN  [w EXCEPT !.ret = FALSE,
                  !.calls = Append(@, "ItemAction"),
                  !.equipped = IF item.id \in @ THEN @ \ {item.id}
                               ELSE @ \cup {item.id}]

-----------------------------------------------------------------------------
(* Pathing (pathfinding.py): the straight-line cell sequence from (x0, y0)  *)
(* to (x1, y1), both ends included, and the squared euclidean distance.     *)

RECURSIVE bresenham_from(_, _, _, _, _, _, _, _, _)
bresenham_from(x0, y0, x1, y1, dx, dy, sx, sy, err) ==
    IF x0 = x1 /\ y0 = y1
    THEN << <<x0, y0>> >>
    ELSE LET e2 == 2 * err
             stepx == e2 > -dy
             stepy == e2 < dx
         IN  << <<x0, y0>> >> \o
             bresenham_from(IF stepx THEN x0 + sx ELSE x0,
                            IF stepy THEN y0 + sy ELSE y0,
                            x1, y1, dx, dy, sx, sy,
                            err - (IF stepx THEN dy ELSE 0)
                                + (IF stepy THEN dx ELSE 0))

bresenham_path_to(x0, y0, x1, y1) ==
    bresenham_from(x0, y0, x1, y1, Abs(x1 - x0), Abs(y1 - y0),
                   IF x0 < x1 THEN 1 ELSE -1, IF y0 < y1 THEN 1 ELSE -1,
                   Abs(x1 - x0) - Abs(y1 - y0))

\* distance_from(...) <= r, compared on the squares.
distance_within(x0, y0, x1, y1, r) ==
    (x1 - x0) * (x1 - x0) + (y1 - y0) * (y1 - y0) <= r * r

-----------------------------------------------------------------------------
(* Creature AI (components/component.py).                                   *)

DIRECTIONS ==
    { <<-1, -1>>, <<-1, 0>>, <<-1, 1>>, <<0, -1>>,
      <<0, 1>>, <<1, -1>>, <<1, 0>>, <<1, 1>> }

Player(ents) == ents[IndexOfId(ents, PLAYER_ID)]

\* BaseAI.get_path_to(player_x, player_y)
get_path_to(ents, i) ==
    bresenham_path_to(ents[i].x, ents[i].y, Player(ents).x, Player(ents).y)

update_agro_status_IgnoresRange(ents, i, paths) ==
    \A k \in 1..Len(paths) : tiles[paths[k][1]][paths[k][2]]

update_agro_status_IgnoresWalls(ents, i, paths) ==
    distance_within(Player(ents).x, Player(ents).y,
                    ents[i].x, ents[i].y, AGRO_RANGE)

\* BaseAI.update_agro_status: the value self.agro is left with.
update_agro_status(ents, i, paths) ==
    LET blocked == \E k \in 1..Len(paths) : ~tiles[paths[k][1]][paths[k][2]]
    IN  distance_within(Player(ents).x, Player(ents).y,
                        ents[i].x, ents[i].y, AGRO_RANGE)
        /\ ~blocked

\* WanderingAI.perform.  walk is the outcome of
\* random.random() >= CHANCE_TO_WALK, dir the direction random.choice picks.
WanderingAI_perform(w, i, walk, dir, rng) ==
    LET paths == get_path_to(w.entities, i)
    IN  IF update_agro_status(w.entities, i, paths)
        THEN [w EXCEPT !.entities[i].ai = "hostile"]
        ELSE LET w1 == [w EXCEPT
                            !.rolls = Append(@, <<"random.random", walk>>)]
             IN  IF walk
                 THEN BumpAction([w1 EXCEPT
                                    !.rolls = Append(@, <<"random.choice",
                                                          TRUE>>)],
                                 i, dir[1], dir[2], FALSE, rng)
                 ELSE w1

HostileEnemyAI_perform_LastCell(w, i, rng) ==
    LET paths == get_path_to(w.entities, i)
        entity == w.entities[i]
    IN  IF ~update_agro_status(w.entities, i, paths)
        THEN [w EXCEPT !.entities[i].ai = "wandering"]
        ELSE BumpAction(w, i, paths[Len(paths)][1] - entity.x,
                        paths[Len(paths)][2] - entity.y, FALSE, rng)

HostileEnemyAI_perform_OnlyWalks(w, i, rng) ==
    LET paths == get_path_to(w.entities, i)
        entity == w.entities[i]
    IN  IF ~update_agro_status(w.entities, i, paths)
        THEN [w EXCEPT !.entities[i].ai = "wandering"]
        ELSE BumpAction(w, i, paths[2][1] - entity.x, paths[2][2] - entity.y,
                        TRUE, rng)

\* HostileEnemyAI.perform
HostileEnemyAI_perform(w, i, rng) ==
    LET paths == get_path_to(w.entities, i)
        entity == w.entities[i]
    IN  IF ~update_agro_status(w.entities, i, paths)
        THEN [w EXCEPT !.entities[i].ai = "wandering"]
        ELSE IF Len(paths) < 2
        THEN [w EXCEPT !.fatal = "IndexError"]      \* paths.pop(1)
        ELSE BumpAction(w, i, paths[2][1] - entity.x, paths[2][2] - entity.y,
                        FALSE, rng)

-----------------------------------------------------------------------------
(* Initial state: one floor with a single wall tile, the player, a hostile- *)
(* capable creature, an ally creature and NumSlots + 1 items lying on the   *)
(* floor.  The entity list is in spawn order, the player spawned last.      *)

NumItems == NumSlots + 1

Fighter(id, kind, ai, x, y, drop) ==
    [id |-> id, kind |-> kind, x |-> x, y |-> y, blocking |-> TRUE,
     render_order |-> "CREATURE", ai |-> ai, health |-> StartHealth,
     damage |-> BaseDamage, critical_damage |-> CriticalDamage,
     experience |-> 0, experience_drop |-> drop, equippable |-> FALSE]

\* Item k lies in the bottom row; odd items are gear, even ones potions.
ItemEntity(k) ==
    [id |-> 10 + k, kind |-> "item", x |-> FloorHeight - 1,
     y |-> (k - 1) % FloorWidth, blocking |-> FALSE,
     render_order |-> "ITEM", ai |-> "none", health |-> 0,
     damage |-> 0, critical_damage |-> 0,
     experience |-> 0, experience_drop |-> 0, equippable |-> (k % 2 = 1)]

InitTiles ==
    [x \in 0..(FloorHeight - 1) |->
        [y \in 0..(FloorWidth - 1) |-> ~(x = 0 /\ y = 1)]]

InitEntities ==
    << Fighter(1, "creature", "wandering", FloorHeight - 1, FloorWidth - 1,
               EnemyExperienceDrop),
       Fighter(2, "creature", "ally", FloorHeight - 1, 0,
               EnemyExperienceDrop) >>
    \o [k \in 1..NumItems |-> ItemEntity(k)]
    \o << Fighter(PLAYER_ID, "player", "none", 0, 0, PlayerExperienceDrop) >>

-----------------------------------------------------------------------------
(* The dungeon and its floors.  A floor record holds what FloorBuilder left *)
(* on the Floor object: its tiles, the center cells of its first and last   *)
(* room, its staircase locations (None for no staircase) and its entity     *)
(* list.  The list of the current floor is the variable entities; the list  *)
(* in the record is the one the floor had when the player last left it.     *)

Cell(x, y) == [x |-> x, y |-> y]

\* Spawner.spawn_staircase: a clone of the staircase prefab is put on the
\* cell, and the cell is recorded as the floor's location of that type.
Staircase(type, depth, cell) ==
    [id |-> 100 + 10 * depth + (IF type = "descending" THEN 1 ELSE 2),
     kind |-> "staircase", x |-> cell.x, y |-> cell.y, blocking |-> FALSE,
     render_order |-> "STAIRCASE", ai |-> "none", health |-> 0,
     damage |-> 0, critical_damage |-> 0,
     experience |-> 0, experience_drop |-> 0, equippable |-> FALSE]

spawn_staircase(floor, depth, cell, type) ==
    LET f == [floor EXCEPT
                !.entities = add_entity(@, Staircase(type, depth, cell))]
    IN  IF type = "descending"
        THEN [f EXCEPT !.descending_staircase_location = cell]
        ELSE [f EXCEPT !.ascending_staircase_location = cell]

place_staircases_RoomsSwapped(floor, depth, descending, ascending) ==
    LET f1 == IF descending
              THEN spawn_staircase(floor, depth, floor.first_room,
                                   "descending")
              ELSE floor
    IN  IF ascending
        THEN spawn_staircase(f1, depth, f1.last_room, "ascending")
        ELSE f1

\* FloorBuilder.place_staircases
place_staircases(floor, depth, descending, ascending) ==
    LET f1 == IF descending
              THEN spawn_staircase(floor, depth, floor.last_room,
                                   "descending")
              ELSE floor
    IN  IF ascending
        THEN spawn_staircase(f1, depth, f1.first_room, "ascending")
        ELSE f1

\* Floor.__init__ followed by the room placement: a floor without staircases.
BareFloor(ents, first_room, last_room) ==
    [tiles |-> InitTiles, entities |-> ents,
     first_room |-> first_room, last_room |-> last_room,
     descending_staircase_location |-> None,
     ascending_staircase_location |-> None]

\* The floors generation can produce at a depth: the first room is centered
\* on the top left cell, the last room is the first room or a room centered
\* on the bottom right cell; the last floor of the dungeon has no descending
\* staircase, any other staircase may or may not be asked for.
RoomCenters == { Cell(0, 0), Cell(FloorHeight - 1, FloorWidth - 1) }

GeneratedFloors(depth) ==
    { place_staircases(BareFloor(<<>>, Cell(0, 0), last_room), depth,
                       descending, ascending) :
        last_room \in RoomCenters,
        descending \in IF depth = LastFloor THEN {FALSE} ELSE BOOLEAN,
        ascending \in BOOLEAN }

\* Dungeon.start: floor 0 is generated and is the deepest floor.
start(floor) ==
    [current_floor_index |-> 0, deepest_floor_index |-> 0,
     floors |-> <<floor>>]

\* Dungeon.generate_next_floor: the floor built for depth deepest + 1 is
\* appended and becomes the deepest floor.
generate_next_floor(d, floor) ==
    [d EXCEPT !.deepest_floor_index = @ + 1, !.floors = Append(@, floor)]

\* Dungeon.current_floor
current_floor(d) == d.floors[d.current_floor_index + 1]

\* Dungeon.on_first_floor
on_first_floor(d) == d.current_floor_index = 0

\* The one floor of Spec: no staircase, the rooms centered on the player.
InitFloor == BareFloor(InitEntities, Cell(0, 0), Cell(0, 0))

\* The player is one object: every entry of a list that is the player shows
\* the player's fields as they are now, that is as the entry the step wrote
\* to has them (the first entry when the step wrote to none).
Aliased(ents) ==
    LET mine == { k \in 1..Len(ents) : ents[k].id = PLAYER_ID }
        written == { k \in mine :
                       \A j \in 1..Len(entities) : entities[j] # ents[k] }
        now == IF written # {}
               THEN ents[CHOOSE k \in written : TRUE]
               ELSE ents[IndexOfId(ents, PLAYER_ID)]
    IN  IF mine = {} THEN ents
        ELSE [k \in 1..Len(ents) |->
                IF ents[k].id = PLAYER_ID THEN now ELSE ents[k]]

\* Spawner.spawn_player: the player is moved to the room's center cell and
\* added to the entity list of the room's floor.
spawn_player(ents, player, cell) ==
    LET p == [player EXCEPT !.x = cell.x, !.y = cell.y]
        seen == [k \in 1..Len(ents) |->
                    IF ents[k].id = PLAYER_ID THEN p ELSE ents[k]]
    IN  add_entity(seen, p)

-----------------------------------------------------------------------------
(* Gamestates: the class of engine.gamestate and, for the states with a     *)
(* cursor (IndexableOptionsState), cursor_index_y.                          *)

ExploreState == [name |-> "ExploreState", cursor_index_y |-> 0]

InventoryMenuState == [name |-> "InventoryMenuState", cursor_index_y |-> 0]

GameWinEndState == [name |-> "GameWinEndState", cursor_index_y |-> 0]

\* State.perform on a State: the gamestate is switched, no turn is consumed.
State_perform(w, state) == [w EXCEPT !.gamestate = state, !.ret = FALSE]

\* DoNothingAction.perform
DoNothingAction(w0) ==
    LET w == [w0 EXCEPT !.calls = Append(@, "DoNothingAction")]
    IN  IF w.gamestate.name = "ProjectileTargetState"
        THEN [w EXCEPT !.ret = FALSE]
        ELSE IF w.gamestate.name = "ExploreState"
        THEN [w EXCEPT !.msgs = Append(@, "You take no action"),
                       !.turns = @ + 1,
                       !.ret = TRUE]
        ELSE [w EXCEPT !.ret = TRUE]

\* A targeting state of the wielded staff (ProjectileTargetState(entity,
\* weapon)).
ProjectileTargetState ==
    [name |-> "ProjectileTargetState", cursor_index_y |-> 0]

\* Weapons: a weapon without a "projectable" component, and a staff whose
\* projectable component has uses_left charges.
Sword == [name |-> "sword", projectable |-> None]

Staff(uses_left) ==
    [name |-> "staff", projectable |-> [uses_left |-> uses_left]]

OutOfCharge_OnlyNegative(projectable) == projectable.uses_left < 0

\* "if self._weapon.projectable.uses_left <= 0"
OutOfCharge(projectable) == projectable.uses_left <= 0

\* HandleSpecialWeaponAction.perform; self._weapon is the wielded weapon.
HandleSpecialWeaponAction(w0) ==
    LET w == [w0 EXCEPT !.calls = Append(@, "HandleSpecialWeaponAction")]
    IN  IF w.weapon = None
        THEN [w EXCEPT !.ret = FALSE,
                       !.gamestate = IF @.name # "ExploreState"
                                     THEN ExploreState ELSE @]
        ELSE IF w.weapon.projectable # None
        THEN IF OutOfCharge(w.weapon.projectable)
             THEN [w EXCEPT
                     !.ret = FALSE,
                     !.msgs = Append(@,
                                "The staff fizzles with no charge left")]
             ELSE [w EXCEPT
                     !.ret = TRUE,
                     !.gamestate = IF @.name # "ProjectileTargetState"
                                   THEN ProjectileTargetState ELSE @]
        ELSE [w EXCEPT !.ret = TRUE]

\* ItemAction.perform on the wielded staff outside the inventory menu (the
\* second branch): Projectable.perform spends one charge and consumes the
\* turn, then the explore state is entered again.
ItemAction_projectable(w0) ==
    LET w == [w0 EXCEPT !.calls = Append(@, "ItemAction")]
    IN  [w EXCEPT !.weapon.projectable.uses_left = @ - 1,
                  !.ret = TRUE,
                  !.gamestate = ExploreState]

-----------------------------------------------------------------------------
(* Level transitions.                                                      *)

\* The quest item (Spawner._get_quest_item_instance).
QUEST_ITEM_ID == 99

QuestItem == [ItemEntity(1) EXCEPT !.id = QUEST_ITEM_ID,
                                   !.equippable = FALSE]

\* Inventory.has_quest_item
has_quest_item(items) ==
    \E k \in 1..Len(items) : items[k].id = QUEST_ITEM_ID

StandsOn_AnyCell(player, staircase) == TRUE

\* The player is standing on the staircase tile.
StandsOn(player, staircase) ==
    player.x = staircase.x /\ player.y = staircase.y

EnterFloor_FirstRoom(w, d, from, last) ==
    LET target == d.current_floor_index
        left == [d EXCEPT !.floors[from + 1].entities = w.entities]
        entered == current_floor(left)
        ents == spawn_player(entered.entities, Player(w.entities),
                             entered.first_room)
    IN  IF target + 1 \notin 1..Len(d.floors)
        THEN [w EXCEPT !.dungeon = left, !.fatal = "IndexError"]
        ELSE [w EXCEPT
                !.dungeon = [left EXCEPT
                                !.floors[target + 1].entities = ents],
                !.entities = ents,
                !.tiles = entered.tiles]

\* d is the dungeon after the index moved off the floor with index from:
\* that floor's entity list stays as it is (the player included), and the
\* player is spawned in the first or the last room of the floor entered.
\* An index that names no floor of the list is a fatal error.
EnterFloor(w, d, from, last) ==
    LET target == d.current_floor_index
        left == [d EXCEPT !.floors[from + 1].entities = w.entities]
        entered == current_floor(left)
        ents == spawn_player(entered.entities, Player(w.entities),
                             IF last THEN entered.last_room
                                     ELSE entered.first_room)
    IN  IF target + 1 \notin 1..Len(d.floors)
        THEN [w EXCEPT !.dungeon = left, !.fatal = "IndexError"]
        ELSE [w EXCEPT
                !.dungeon = [left EXCEPT
                                !.floors[target + 1].entities = ents],
                !.entities = ents,
                !.tiles = entered.tiles]

NewDepthReached_Always(d) == TRUE

NewDepthReached_Never(d) == FALSE

\* new_depth_reached of DescendStairsAction.perform
NewDepthReached(d) == d.current_floor_index = d.deepest_floor_index

\* DescendStairsAction.perform; next is the floor generate_next_floor would
\* build.
DescendStairsAction(w0, next) ==
    LET w == [w0 EXCEPT !.calls = Append(@, "DescendStairsAction"),
                        !.ret = FALSE]
        d == w.dungeon
        floor == current_floor(d)
        player == Player(w.entities)
        staircase == floor.descending_staircase_location
    IN  IF staircase = None
        THEN [w EXCEPT !.msgs = Append(@, "Can't descend here")]
        ELSE IF ~StandsOn(player, staircase)
        THEN [w EXCEPT !.msgs = Append(@, "Can't descend here")]
        ELSE LET new_depth_reached == NewDepthReached(d)
                 d1 == [d EXCEPT !.current_floor_index = @ + 1]
                 d2 == IF new_depth_reached
                       THEN generate_next_floor(d1, next)
                       ELSE d1
                 w1 == EnterFloor(w, d2, d.current_floor_index, FALSE)
                 w2 == [w1 EXCEPT
                    !.mid = [current_floor_index |-> d1.current_floor_index,
                             deepest_floor_index |-> d1.deepest_floor_index]]
             IN  IF w2.fatal # "none" THEN w2 ELSE
                 [w2 EXCEPT
                    !.generated = IF new_depth_reached
                                  THEN Append(@, d.current_floor_index + 1)
                                  ELSE @,
                    !.msgs = Append(@, "You descend a level..."),
                    !.turns = @ + 1]

QuestCheck_WinsWithoutRelic(w) == [w EXCEPT !.gamestate = GameWinEndState]

\* The block under "if dungeon.on_first_floor" of AscendStairsAction.perform:
\* the game is won with the quest item, the player is blocked without it.
QuestCheck(w) ==
    IF has_quest_item(w.inventory)
    THEN [w EXCEPT !.gamestate = GameWinEndState]
    ELSE [w EXCEPT
            !.msgs = Append(@, "You must bring back the relic first!")]

\* AscendStairsAction.perform
AscendStairsAction(w0) ==
    LET w == [w0 EXCEPT !.calls = Append(@, "AscendStairsAction"),
                        !.ret = FALSE]
        d == w.dungeon
        floor == current_floor(d)
        player == Player(w.entities)
        staircase == floor.ascending_staircase_location
    IN  IF staircase = None
        THEN [w EXCEPT !.msgs = Append(@, "Can't ascend here")]
        ELSE IF ~StandsOn(player, staircase)
        THEN [w EXCEPT !.msgs = Append(@, "Can't ascend here")]
        ELSE IF on_first_floor(d)
        THEN QuestCheck(w)
        ELSE LET d1 == [d EXCEPT !.current_floor_index = @ - 1]
                 w1 == EnterFloor(w, d1, d.current_floor_index, TRUE)
             IN  IF w1.fatal # "none" THEN w1 ELSE
                 [w1 EXCEPT !.msgs = Append(@, "You ascend a level..."),
                            !.turns = @ + 1]

NoAct == [name |-> "none", id |-> PLAYER_ID, dx |-> 0, dy |-> 0,
          calls |-> <<>>, mid |-> None]

Init ==
    /\ tiles = InitTiles
    /\ entities = InitEntities
    /\ inventory = <<>>
    /\ max_slots = NumSlots
    /\ equipped = {}
    /\ turns = 0
    /\ slayed = 0
    /\ fatal = "none"
    /\ act = NoAct
    /\ ret = FALSE
    /\ msgs = <<>>
    /\ rolls = <<>>
    /\ hits = <<>>
    /\ result = None
    /\ dungeon = start(InitFloor)
    /\ gamestate = ExploreState
    /\ generated = <<>>
    /\ weapon = None
    /\ builder = None
    /\ ui = None

-----------------------------------------------------------------------------
(* Steps.  The engine resolves one perform() at a time; a step is one       *)
(* player command or one activation of a creature's AI component.           *)

\* Outcomes of the rolls of one attack.  A roll that is never drawn (after a
\* miss, or the second critical roll without a double hit) is fixed to FALSE.
Rng ==
    { r \in [did_hit : BOOLEAN, did_double_hit : BOOLEAN,
             did_critical : [1..2 -> BOOLEAN]] :
        /\ ~r.did_hit => (~r.did_double_hit /\ ~r.did_critical[1])
        /\ ~r.did_double_hit => ~r.did_critical[2] }

\* The roll outcomes to consider for a bump of entity i by (dx, dy): rolls are
\* drawn only when the bump meets a blocking entity.
RollsFor(i, dx, dy) ==
    IF blocking_entity_at(entities, entities[i].x + dx, entities[i].y + dy)
         # NONE
    THEN Rng
    ELSE { r \in Rng : ~r.did_hit }

\* The walk roll and direction of a WanderingAI activation; no direction is
\* chosen when the creature does not walk.
WanderChoices ==
    { c \in [walk : BOOLEAN, dir : DIRECTIONS \cup {<<0, 0>>}] :
        c.walk <=> c.dir # <<0, 0>> }

\* The game goes on: nothing fatal happened and the player is alive.
Running ==
    /\ fatal = "none"
    /\ IndexOfId(entities, PLAYER_ID) # NONE
    /\ ~is_dead(Player(entities))

PlayerIndex == IndexOfId(entities, PLAYER_ID)

\* The step that leaves the engine in the state the record r describes;
\* name and id are the command or activation resolved and its actor.
Commit(r, name, id) ==
    \E w \in {r} :
        /\ entities' = Aliased(w.entities)
        /\ tiles' = w.tiles
        /\ dungeon' = w.dungeon
        /\ gamestate' = w.gamestate
        /\ generated' = w.generated
        /\ inventory' = w.inventory
        /\ equipped' = w.equipped
        /\ turns' = w.turns
        /\ slayed' = w.slayed
        /\ fatal' = w.fatal
        /\ ret' = w.ret
        /\ msgs' = w.msgs
        /\ rolls' = w.rolls
        /\ hits' = w.hits
        /\ act' = [name |-> name, id |-> id, dx |-> w.dx, dy |-> w.dy,
                    calls |-> w.calls, mid |-> w.mid]
        /\ weapon' = w.weapon
        /\ UNCHANGED <<max_slots, result, builder, ui>>

\* ExploreState: a move key.
PlayerBump ==
    \E dir \in DIRECTIONS :
      \E rng \in RollsFor(PlayerIndex, dir[1], dir[2]) :
        /\ Running /\ turns < MaxTurns
        /\ Commit(BumpAction(World, PlayerIndex, dir[1], dir[2], FALSE, rng),
                  "BumpAction", PLAYER_ID)

\* ExploreState: 'p'.
PlayerPickUp ==
    /\ Running /\ turns < MaxTurns
    /\ Commit(PickUpItemAction(World, PlayerIndex),
                  "PickUpItemAction", PLAYER_ID)

\* InventoryMenuState: 'd' on the item under the cursor.
PlayerDrop ==
    \E k \in 1..Len(inventory) :
        /\ Running /\ turns < MaxTurns
        /\ Commit(DropItemAction(World, PlayerIndex, k),
                  "DropItemAction", PLAYER_ID)

\* InventoryMenuState: confirm on a piece of gear under the cursor.
PlayerEquip ==
    \E k \in 1..Len(inventory) :
        /\ Running /\ turns < MaxTurns
        /\ inventory[k].equippable
        /\ Commit(ItemAction(World, PlayerIndex, k),
                  "ItemAction", PLAYER_ID)

\* Activation of a creature whose "ai" component is a WanderingAI.
WanderingActivation ==
    \E i \in 1..Len(entities), c \in WanderChoices :
      \E rng \in RollsFor(i, c.dir[1], c.dir[2]) :
        /\ Running
        /\ entities[i].ai = "wandering"
        /\ Commit(WanderingAI_perform(World, i, c.walk, c.dir, rng),
                  "WanderingAI", entities[i].id)

\* Activation of a creature whose "ai" component is a HostileEnemyAI.
HostileActivation ==
    \E i \in 1..Len(entities), rng \in Rng :
        /\ Running
        /\ entities[i].ai = "hostile"
        /\ Commit(HostileEnemyAI_perform(World, i, rng),
                  "HostileEnemyAI", entities[i].id)

Next ==
    \/ PlayerBump
    \/ PlayerPickUp
    \/ PlayerDrop
    \/ PlayerEquip
    \/ WanderingActivation
    \/ HostileActivation

Spec == Init /\ [][Next]_vars

-----------------------------------------------------------------------------
(* The player alone in the dungeon: level transitions, waiting, walking and *)
(* the inventory menu.  Floor 0 has a descending staircase in its last room *)
(* and may have an ascending one; the player starts on the first room's     *)
(* center, with or without the quest item.                                  *)

InitDungeon ==
    /\ \E last_room \in RoomCenters, ascending \in BOOLEAN :
         \E floor \in {place_staircases(
                          BareFloor(<<>>, Cell(0, 0), last_room), 0, TRUE,
                          ascending)} :
          \E ents \in {spawn_player(
                          floor.entities,
                          Fighter(PLAYER_ID, "player", "none", 0, 0,
                                  PlayerExperienceDrop),
                          floor.first_room)} :
            /\ entities = ents
            /\ dungeon = start([floor EXCEPT !.entities = ents])
    /\ tiles = InitTiles
    /\ inventory \in { <<>>, <<QuestItem>> }
    /\ max_slots = NumSlots
    /\ equipped = {}
    /\ turns = 0
    /\ slayed = 0
    /\ fatal = "none"
    /\ act = NoAct
    /\ ret = FALSE
    /\ msgs = <<>>
    /\ rolls = <<>>
    /\ hits = <<>>
    /\ result = None
    /\ gamestate = ExploreState
    /\ generated = <<>>
    /\ weapon \in {None, Sword} \cup { Staff(n) : n \in 0..MaxUses }
    /\ builder = None
    /\ ui = None

\* The player can give a command in ExploreState.
Exploring ==
    /\ Running
    /\ gamestate.name = "ExploreState"
    /\ turns < MaxDungeonTurns

\* ExploreState: a move key.
ExploreBump ==
    \E dir \in DIRECTIONS :
      \E rng \in RollsFor(PlayerIndex, dir[1], dir[2]) :
        /\ Exploring
        /\ Commit(BumpAction(World, PlayerIndex, dir[1], dir[2], FALSE, rng),
                  "BumpAction", PLAYER_ID)

\* ExploreState: a wait key.
ExploreWait ==
    /\ Exploring
    /\ Commit(DoNothingAction(World), "DoNothingAction", PLAYER_ID)

\* ExploreState: '>'.
ExploreDescend ==
    \E next \in GeneratedFloors(dungeon.deepest_floor_index + 1) :
        /\ Exploring
        /\ dungeon.current_floor_index = dungeon.deepest_floor_index
           \/ next = CHOOSE f \in
                  GeneratedFloors(dungeon.deepest_floor_index + 1) : TRUE
        /\ Commit(DescendStairsAction(World, next),
                  "DescendStairsAction", PLAYER_ID)

\* ExploreState: '<'.
ExploreAscend ==
    /\ Exploring
    /\ Commit(AscendStairsAction(World), "AscendStairsAction", PLAYER_ID)

\* ExploreState: tab or 'i'.
OpenInventory ==
    /\ Exploring
    /\ Commit(State_perform(World, InventoryMenuState),
              "InventoryMenuState", PLAYER_ID)

\* InventoryMenuState: a move key that moves the cursor up or down.
InventoryCursor ==
    \E step \in {-1, 1} :
        /\ Running
        /\ gamestate.name = "InventoryMenuState"
        /\ Abs(gamestate.cursor_index_y + step) <= MaxCursor
        /\ Commit(DoNothingAction(
                    [World EXCEPT !.gamestate.cursor_index_y = @ + step]),
                  "DoNothingAction", PLAYER_ID)

\* InventoryMenuState: tab, 'i' or a back key.
CloseInventory ==
    /\ Running
    /\ gamestate.name = "InventoryMenuState"
    /\ Commit(State_perform(World, ExploreState), "ExploreState", PLAYER_ID)

\* The special action of the wielded weapon is requested.
RequestSpecial ==
    /\ Running
    /\ gamestate.name \in {"ExploreState", "InventoryMenuState",
                           "ProjectileTargetState"}
    /\ Commit(HandleSpecialWeaponAction(World),
              "HandleSpecialWeaponAction", PLAYER_ID)

\* ProjectileTargetState: confirm on a target.
FireProjectile ==
    /\ Running
    /\ gamestate.name = "ProjectileTargetState"
    /\ Commit(ItemAction_projectable(World), "ItemAction", PLAYER_ID)

\* ProjectileTargetState: a back key.
CancelTargeting ==
    /\ Running
    /\ gamestate.name = "ProjectileTargetState"
    /\ Commit(State_perform(World, ExploreState), "ExploreState", PLAYER_ID)

NextDungeon ==
    \/ RequestSpecial
    \/ FireProjectile
    \/ CancelTargeting
    \/ ExploreBump
    \/ ExploreWait
    \/ ExploreDescend
    \/ ExploreAscend
    \/ OpenInventory
    \/ InventoryCursor
    \/ CloseInventory

SpecDungeon == InitDungeon /\ [][NextDungeon]_vars

-----------------------------------------------------------------------------
(* A creature and the player in a corridor one cell high and longer than    *)
(* the aggro range, with or without one wall tile in it.  The player starts *)
(* one cell from the corridor's end, the creature anywhere beyond.          *)

CorridorTiles(wall) ==
    [x \in 0..0 |-> [y \in 0..(CorridorLength - 1) |-> y # wall]]

InitCorridor ==
    /\ \E c \in 2..(CorridorLength - 1) :
         \E wall \in (2..CorridorLength) \ {c} :
          \E ents \in {<< Fighter(1, "creature", "wandering", 0, c,
                                  EnemyExperienceDrop),
                          Fighter(PLAYER_ID, "player", "none", 0, 1,
                                  PlayerExperienceDrop) >>} :
            /\ tiles = CorridorTiles(wall)
            /\ entities = ents
            /\ dungeon = start([BareFloor(ents, Cell(0, 1), Cell(0, 1))
                                  EXCEPT !.tiles = CorridorTiles(wall)])
    /\ inventory = <<>>
    /\ max_slots = NumSlots
    /\ equipped = {}
    /\ turns = 0
    /\ slayed = 0
    /\ fatal = "none"
    /\ act = NoAct
    /\ ret = FALSE
    /\ msgs = <<>>
    /\ rolls = <<>>
    /\ hits = <<>>
    /\ result = None
    /\ gamestate = ExploreState
    /\ generated = <<>>
    /\ weapon = None
    /\ builder = None
    /\ ui = None

NextCorridor ==
    \/ PlayerBump
    \/ WanderingActivation
    \/ HostileActivation

SpecCorridor == InitCorridor /\ [][NextCorridor]_vars

-----------------------------------------------------------------------------
(* Floor generation (dungeon/floor.py): a FloorBuilder and the floor it is  *)
(* building.  stage is the method of the pipeline that runs next, rooms the *)
(* floor's room list, curr_iterations the failure count of place_rooms,     *)
(* next_room the position of place_tunnels in the room list, tunnels the    *)
(* tunnels carved so far, flags the arguments place_staircases was called   *)
(* with, error the uncaught exception that ended the build.                 *)

\* Room(x1, y1, width, height): rows x1..x2-1 and columns y1..y2-1.
Room(x1, y1, room_width, room_height) ==
    [x1 |-> x1, y1 |-> y1, x2 |-> x1 + room_height, y2 |-> y1 + room_width]

\* Room.intersects_with: the rectangles overlap or touch, so that accepted
\* rooms keep a margin of one cell between them.
intersects_with(room, other) ==
    /\ room.x1 <= other.x2 /\ room.x2 >= other.x1
    /\ room.y1 <= other.y2 /\ room.y2 >= other.y1

\* The cells a room is dug into: "for x in range(room.x1, room.x2): for y in
\* range(room.y1, room.y2)".
RoomCells(room) ==
    { Cell(x, y) : x \in room.x1..(room.x2 - 1), y \in room.y1..(room.y2 - 1) }

\* Room.get_center_cell
get_center_cell(room) ==
    Cell((room.x1 + room.x2) \div 2, (room.y1 + room.y2) \div 2)

\* The cells of a grid of tiles.
GridCells(t) == { Cell(x, y) : x \in DOMAIN t, y \in DOMAIN t[0] }

\* "self._floor.tiles[x][y] = floor_tile_shrouded" for every cell of a set.
Dig(t, cells) ==
    [x \in DOMAIN t |->
        [y \in DOMAIN t[x] |-> t[x][y] \/ Cell(x, y) \in cells]]

\* FloorBuilder.place_walls
place_walls(b) ==
    [b EXCEPT !.tiles = [x \in 0..(BuilderHeight - 1) |->
                            [y \in 0..(BuilderWidth - 1) |-> FALSE]],
              !.stage = "place_rooms"]

RoomRows_ToTheEdge == 1..BuilderHeight

\* random.randint(1, self.floor_height - max_room_height - 1)
RoomRows == 1..(BuilderHeight - RoomSide - 1)

\* random.randint(1, self.floor_width - max_room_width - 1)
RoomColumns == 1..(BuilderWidth - RoomSide - 1)

\* The rooms one pass of the loop of place_rooms can draw.
DrawnRooms ==
    { Room(x1, y1, RoomSide, RoomSide) : x1 \in RoomRows, y1 \in RoomColumns }

\* "if curr_iterations > 250: break"
TooManyFailures(curr_iterations) == curr_iterations > MaxFailedAttempts

\* The loop of place_rooms is left: place_rooms returns.
rooms_placed(b) == [b EXCEPT !.stage = "place_tunnels", !.next_room = 1]

place_rooms_pass_NoIntersectTest(b, room) ==
    LET placed == [b EXCEPT !.curr_iterations = 0,
                            !.tiles = Dig(@, RoomCells(room)),
                            !.rooms = Append(@, room)]
    IN  IF ~(RoomCells(room) \subseteq GridCells(b.tiles))
        THEN [b EXCEPT !.error = "IndexError"]
        ELSE IF Len(placed.rooms) < b.num_rooms THEN placed
        ELSE rooms_placed(placed)

\* One pass of the while loop of place_rooms with the room drawn in it, up
\* to the next test of the loop condition.
place_rooms_pass(b, room) ==
    LET failed == [b EXCEPT !.curr_iterations = @ + 1]
        placed == [b EXCEPT !.curr_iterations = 0,
                            !.tiles = Dig(@, RoomCells(room)),
                            !.rooms = Append(@, room)]
    IN  IF \E k \in 1..Len(b.rooms) : intersects_with(room, b.rooms[k])
        THEN IF TooManyFailures(failed.curr_iterations)
             THEN rooms_placed(failed)
             ELSE failed
        ELSE IF ~(RoomCells(room) \subseteq GridCells(b.tiles))
        THEN [b EXCEPT !.error = "IndexError"]
        ELSE IF Len(placed.rooms) < b.num_rooms THEN placed
        ELSE rooms_placed(placed)

get_tunnel_set_BendAtStart(r1_cell, r2_cell) ==
    LET swap_x == r1_cell.x >= r2_cell.x
        start_x == IF swap_x THEN r2_cell.x ELSE r1_cell.x
        end_x == IF swap_x THEN r1_cell.x ELSE r2_cell.x
        leg_y == IF start_x = r1_cell.x THEN r1_cell.y ELSE r2_cell.y
        swap_y == r1_cell.y >= r2_cell.y
        start_y == IF swap_y THEN r2_cell.y ELSE r1_cell.y
        end_y == IF swap_y THEN r1_cell.y ELSE r2_cell.y
    IN  { Cell(x, leg_y) : x \in start_x..end_x }
        \cup { Cell(start_x, y) : y \in start_y..end_y }

\* FloorBuilder._get_tunnel_set
get_tunnel_set(r1_cell, r2_cell) ==
    LET swap_x == r1_cell.x >= r2_cell.x
        start_x == IF swap_x THEN r2_cell.x ELSE r1_cell.x
        end_x == IF swap_x THEN r1_cell.x ELSE r2_cell.x
        leg_y == IF start_x = r1_cell.x THEN r1_cell.y ELSE r2_cell.y
        swap_y == r1_cell.y >= r2_cell.y
        start_y == IF swap_y THEN r2_cell.y ELSE r1_cell.y
        end_y == IF swap_y THEN r1_cell.y ELSE r2_cell.y
    IN  { Cell(x, leg_y) : x \in start_x..end_x }
        \cup { Cell(end_x, y) : y \in start_y..end_y }

TunnelPartner_Self(rooms, i) == i

\* "rooms[-2]": the index of the room every tunnel is dug to.
TunnelPartner(rooms, i) == Len(rooms) - 1

\* One pass of the for loop of place_tunnels, for the room with index
\* next_room, with the cells get_random_cell returned for the two rooms.
place_tunnels_pass(b, r1_cell, r2_cell) ==
    LET i == b.next_room
        j == TunnelPartner(b.rooms, i)
        cells == get_tunnel_set(r1_cell, r2_cell)
        dug == IF Len(b.rooms) > 1
               THEN [b EXCEPT
                       !.tiles = Dig(@, cells),
                       !.tunnels = Append(@, [room |-> i, other |-> j,
                                              r1_cell |-> r1_cell,
                                              r2_cell |-> r2_cell,
                                              cells |-> cells])]
               ELSE b
        after == [dug EXCEPT !.next_room = @ + 1]
    IN  IF Len(b.rooms) > 1 /\ ~(cells \subseteq GridCells(b.tiles))
        THEN [b EXCEPT !.error = "IndexError"]
        ELSE IF after.next_room > Len(b.rooms)
        THEN [after EXCEPT !.stage = "place_staircases"]
        ELSE after

\* FloorBuilder.place_staircases on the floor under construction.
builder_place_staircases(b, descending, ascending) ==
    LET floor == place_staircases(
                    [BareFloor(b.entities,
                               get_center_cell(b.rooms[1]),
                               get_center_cell(b.rooms[Len(b.rooms)]))
                       EXCEPT !.tiles = b.tiles],
                    0, descending, ascending)
    IN  [b EXCEPT
           !.entities = floor.entities,
           !.descending_staircase_location =
                floor.descending_staircase_location,
           !.ascending_staircase_location =
                floor.ascending_staircase_location,
           !.flags = [descending |-> descending, ascending |-> ascending],
           !.stage = "build"]

\* FloorBuilder.__init__ and Floor.__init__: no tiles, no rooms, no
\* entities, no staircase locations.
NewBuilder(num_rooms) ==
    [stage |-> "place_walls", num_rooms |-> num_rooms, tiles |-> <<>>,
     rooms |-> <<>>, curr_iterations |-> 0, next_room |-> 0,
     tunnels |-> <<>>, entities |-> <<>>,
     descending_staircase_location |-> None,
     ascending_staircase_location |-> None,
     flags |-> None, error |-> "none"]

InitBuilder ==
    /\ builder \in { NewBuilder(n) : n \in 1..NumRooms }
    /\ ui = None
    /\ tiles = InitTiles
    /\ entities = <<>>
    /\ inventory = <<>>
    /\ max_slots = NumSlots
    /\ equipped = {}
    /\ turns = 0
    /\ slayed = 0
    /\ fatal = "none"
    /\ act = NoAct
    /\ ret = FALSE
    /\ msgs = <<>>
    /\ rolls = <<>>
    /\ hits = <<>>
    /\ result = None
    /\ dungeon = None
    /\ gamestate = None
    /\ generated = <<>>
    /\ weapon = None

\* The step of the builder that leaves it as the record b describes.
Build(b) ==
    /\ builder' = b
    /\ UNCHANGED <<tiles, entities, inventory, max_slots, equipped, turns,
                   slayed, fatal, act, ret, msgs, rolls, hits, result,
                   dungeon, gamestate, generated, weapon, ui>>

Building(stage) == builder.error = "none" /\ builder.stage = stage

PlaceWalls ==
    /\ Building("place_walls")
    /\ Build(place_walls(builder))

PlaceRoomsPass ==
    \E room \in DrawnRooms :
        /\ Building("place_rooms")
        /\ Build(place_rooms_pass(builder, room))

PlaceTunnelsPass ==
    /\ Building("place_tunnels")
    /\ \E r1_cell \in RoomCells(builder.rooms[builder.next_room]),
          r2_cell \in IF Len(builder.rooms) > 1
                      THEN RoomCells(builder.rooms[
                            TunnelPartner(builder.rooms, builder.next_room)])
                      ELSE {None} :
          Build(place_tunnels_pass(builder, r1_cell, r2_cell))

PlaceStaircases ==
    \E descending \in BOOLEAN, ascending \in BOOLEAN :
        /\ Building("place_staircases")
        /\ Build(builder_place_staircases(builder, descending, ascending))

NextBuilder ==
    \/ PlaceWalls
    \/ PlaceRoomsPass
    \/ PlaceTunnelsPass
    \/ PlaceStaircases

SpecBuilder == InitBuilder /\ [][NextBuilder]_vars

\* The interpreter keeps running the loop of place_rooms.
SpecBuilderLive == SpecBuilder /\ WF_vars(PlaceRoomsPass)

\* _get_tunnel_set on its own: a builder whose walls are placed is handed
\* any two cells of the grid.
InitTunnelSet ==
    /\ \E r1_cell \in GridCells(place_walls(NewBuilder(1)).tiles),
          r2_cell \in GridCells(place_walls(NewBuilder(1)).tiles) :
            builder = [stage |-> "_get_tunnel_set", error |-> "none",
                       r1_cell |-> r1_cell, r2_cell |-> r2_cell]
    /\ ui = None
    /\ tiles = InitTiles
    /\ entities = <<>>
    /\ inventory = <<>>
    /\ max_slots = NumSlots
    /\ equipped = {}
    /\ turns = 0
    /\ slayed = 0
    /\ fatal = "none"
    /\ act = NoAct
    /\ ret = FALSE
    /\ msgs = <<>>
    /\ rolls = <<>>
    /\ hits = <<>>
    /\ result = None
    /\ dungeon = None
    /\ gamestate = None
    /\ generated = <<>>
    /\ weapon = None

CallGetTunnelSet ==
    /\ Building("_get_tunnel_set")
    /\ result = None
    /\ result' = [returned |->
                    get_tunnel_set(builder.r1_cell, builder.r2_cell)]
    /\ UNCHANGED <<tiles, entities, inventory, max_slots, equipped, turns,
                   slayed, fatal, act, ret, msgs, rolls, hits, dungeon,
                   gamestate, generated, weapon, builder, ui>>

NextTunnelSet == CallGetTunnelSet

SpecTunnelSet == InitTunnelSet /\ [][NextTunnelSet]_vars

-----------------------------------------------------------------------------
(* The dungeon with a creature: place_creatures puts one creature on floor  *)
(* 0 and none on the floors below, the player walks, fights and takes the   *)
(* staircases, and the creatures of the current floor are activated.        *)

EmptyCells_WithCenters(floor) ==
    { c \in GridCells(floor.tiles) : floor.tiles[c.x][c.y] }

\* The cells Room.get_random_empty_cell can return: a walkable cell that is
\* no room's center and holds no entity.
EmptyCells(floor) ==
    { c \in GridCells(floor.tiles) :
        /\ floor.tiles[c.x][c.y]
        /\ c \notin {floor.first_room, floor.last_room}
        /\ \A k \in 1..Len(floor.entities) :
              ~StandsOn(floor.entities[k], c) }

\* Spawner.spawn_enemy with the cell its room gave it.
spawn_enemy(floor, depth, cell) ==
    [floor EXCEPT
        !.entities = add_entity(@, Fighter(20 + depth, "creature",
                                           "wandering", cell.x, cell.y,
                                           EnemyExperienceDrop))]

\* FloorBuilder.place_creatures with max_creatures_per_floor = 1, on each of
\* the floors generation can produce at a depth (with 0 it leaves the floor
\* as GeneratedFloors has it).
PopulatedFloors(depth) ==
    UNION { { spawn_enemy(floor, depth, cell) : cell \in EmptyCells(floor) } :
            floor \in GeneratedFloors(depth) }

InitCreatures ==
    /\ \E floor \in { f \in PopulatedFloors(0) :
                          f.descending_staircase_location # None } :
         \E ents \in {spawn_player(
                         floor.entities,
                         Fighter(PLAYER_ID, "player", "none", 0, 0,
                                 PlayerExperienceDrop),
                         floor.first_room)} :
            /\ entities = ents
            /\ dungeon = start([floor EXCEPT !.entities = ents])
    /\ tiles = InitTiles
    /\ inventory = <<>>
    /\ max_slots = NumSlots
    /\ equipped = {}
    /\ turns = 0
    /\ slayed = 0
    /\ fatal = "none"
    /\ act = NoAct
    /\ ret = FALSE
    /\ msgs = <<>>
    /\ rolls = <<>>
    /\ hits = <<>>
    /\ result = None
    /\ gamestate = ExploreState
    /\ generated = <<>>
    /\ weapon = None
    /\ builder = None
    /\ ui = None

\* The player can give a command in ExploreState of the dungeon with a
\* creature.
CreatureExploring ==
    /\ Running
    /\ gamestate.name = "ExploreState"
    /\ turns < MaxCreatureTurns

\* ExploreState: a move key.
CreatureBump ==
    \E dir \in DIRECTIONS :
      \E rng \in RollsFor(PlayerIndex, dir[1], dir[2]) :
        /\ CreatureExploring
        /\ Commit(BumpAction(World, PlayerIndex, dir[1], dir[2], FALSE, rng),
                  "BumpAction", PLAYER_ID)

\* ExploreState: '>'.
CreatureDescend ==
    \E next \in GeneratedFloors(dungeon.deepest_floor_index + 1) :
        /\ CreatureExploring
        /\ dungeon.current_floor_index = dungeon.deepest_floor_index
           \/ next = CHOOSE f \in
                  GeneratedFloors(dungeon.deepest_floor_index + 1) : TRUE
        /\ Commit(DescendStairsAction(World, next),
                  "DescendStairsAction", PLAYER_ID)

\* ExploreState: '<'.
CreatureAscend ==
    /\ CreatureExploring
    /\ Commit(AscendStairsAction(World), "AscendStairsAction", PLAYER_ID)

NextCreatures ==
    \/ CreatureBump
    \/ CreatureDescend
    \/ CreatureAscend
    \/ WanderingActivation
    \/ HostileActivation

SpecCreatures == InitCreatures /\ [][NextCreatures]_vars

-----------------------------------------------------------------------------
(* The menu screens (gamestates.py).  gamestate is the current state        *)
(* object: its class and its cursor.  ui holds what the state objects refer *)
(* to: saves, the occupied save slots; parent, the menu or explore state a  *)
(* confirm box or the name entry came from; the Confirmation objects of     *)
(* that state (None or a result); box, the field of the parent that the    *)
(* open confirm box writes to; bypassable; name_length, the length of the   *)
(* name typed (no branch reads its characters); save_meta and saved, the    *)
(* run status and the status in the last save written; leveler, the         *)
(* level, attribute points and level-ups still due of the player of the run *)
(* in progress (None outside a run, where no code reads it).  One step is   *)
(* one pass of the game loop: handle_input of the current state on a key,   *)
(* then its perform on what handle_input returned.                          *)

NumSaves == 2          \* save slots listed by the saves menus
MaxLevelUps == 2       \* level-ups due when the selection state opens

MAX_NAME_LENGTH == 22

\* Representative keys: the four straight move keys, a diagonal move key
\* that is also a letter, the wait, exit, back and confirm keys, 'x', a
\* letter bound to nothing, and a key no state reads.
Keys ==
    { "KEY_UP", "KEY_DOWN", "KEY_LEFT", "KEY_RIGHT", "y", ".", "Q",
      "KEY_BACKSPACE", "KEY_ENTER", "x", "a", "KEY_F1" }

MOVE_KEYS ==
    [ KEY_UP |-> <<-1, 0>>, KEY_DOWN |-> <<1, 0>>, KEY_LEFT |-> <<0, -1>>,
      KEY_RIGHT |-> <<0, 1>>, y |-> <<-1, -1>> ]

WAIT_KEYS == { "." }

EXIT_KEYS == { "Q" }

BACK_KEYS == { "KEY_BACKSPACE" }

CONFIRM_KEYS == { "KEY_ENTER" }

ANY_KEYS ==
    (DOMAIN MOVE_KEYS) \cup WAIT_KEYS \cup EXIT_KEYS \cup BACK_KEYS
        \cup CONFIRM_KEYS

\* "len(player_input) == 1 and (curses.ascii.isalnum(player_input) or
\* player_input == ' ')"
IsNameCharacter(player_input) == player_input \in { "y", "Q", "x", "a" }

\* A Confirmation object and its result field.
Confirmation(answer) == [result |-> answer]

\* "self.confirm_x and self.confirm_x.result is True"
Confirmed(confirmation) ==
    IF confirmation = None THEN FALSE ELSE confirmation.result

\* Python list indexing of a list of length n: the position (from 1) the
\* index names, NONE for an IndexError.
PyIndex(n, i) ==
    IF i >= 0 /\ i < n THEN i + 1
    ELSE IF i < 0 /\ -i <= n THEN n + i + 1
    ELSE NONE

MainMenuState == [name |-> "MainMenuState", cursor_index_y |-> 0]

StartNewGameMenuState ==
    [name |-> "StartNewGameMenuState", cursor_index_y |-> 0]

ContinueGameMenuState ==
    [name |-> "ContinueGameMenuState", cursor_index_y |-> 0]

ConfirmBoxState == [name |-> "ConfirmBoxState", cursor_index_y |-> 0]

EnterNameState == [name |-> "EnterNameState", cursor_index_y |-> 0]

GameOverState == [name |-> "GameOverState", cursor_index_y |-> 0]

LevelUpSelectionState ==
    [name |-> "LevelUpSelectionState", cursor_index_y |-> 0,
     cursor_index_x |-> 0]

\* The fields a state object is created with: no confirmation asked.
FreshState(m) ==
    [m EXCEPT !.ui.confirm_overwrite = None, !.ui.confirm_delete = None,
              !.ui.confirm_savequit = None,
              !.ui.confirm_mainquest_finish = None,
              !.ui.bypassable = FALSE, !.ui.box = "none"]

\* The menu machine as one record: what handle_input and perform read and
\* write.  issued is what handle_input returned.
Menu ==
    [gamestate |-> gamestate, ui |-> ui, fatal |-> fatal, ret |-> FALSE,
     turns |-> turns, msgs |-> <<>>, issued |-> "None"]

\* handle_input returned a state: perform() makes it the gamestate.
Switch(m, state) == [m EXCEPT !.issued = state.name, !.gamestate = state]

\* A cursor move: the cursor changes and DoNothingAction is returned; outside
\* ExploreState its perform changes nothing and returns True.
MoveCursor(m, step) ==
    [m EXCEPT !.gamestate.cursor_index_y = @ + step,
              !.issued = "DoNothingAction", !.ret = TRUE]

\* QuitGameAction.perform: sys.exit(0).
QuitGameAction(m) ==
    [m EXCEPT !.issued = "QuitGameAction", !.fatal = "SystemExit"]

\* save_current_game: the save written carries the run status of the moment.
save_current_game(m) == [m EXCEPT !.ui.saved = m.ui.save_meta.status]

\* SaveAndQuitAction.perform: SaveAction.perform, then QuitGameAction.
SaveAndQuitAction(m) ==
    [save_current_game(m) EXCEPT !.issued = "SaveAndQuitAction",
                                 !.fatal = "SystemExit"]

OnPlayerDeathAction_SavesFirst(m) ==
    [save_current_game(m) EXCEPT
        !.msgs = Append(@, "You have been defeated!"),
        !.ui.save_meta.status = "DEFEAT",
        !.issued = "OnPlayerDeathAction", !.ret = FALSE]

\* OnPlayerDeathAction.perform
OnPlayerDeathAction(m) ==
    save_current_game(
        [m EXCEPT !.msgs = Append(@, "You have been defeated!"),
                  !.ui.save_meta.status = "DEFEAT",
                  !.issued = "OnPlayerDeathAction", !.ret = FALSE])

\* OnPlayerWinAction.perform
OnPlayerWinAction(m) ==
    save_current_game(
        [m EXCEPT !.msgs = Append(@, "You made it out of the dungeon!"),
                  !.ui.save_meta.status = "VICTORY",
                  !.issued = "OnPlayerWinAction", !.ret = FALSE])

\* DeleteSaveAction.perform on the slot under the cursor: the slot is
\* emptied and the state's save list is fetched again.
DeleteSaveAction(m, index) ==
    LET k == PyIndex(NumSaves, index)
    IN  IF k = NONE
        THEN [m EXCEPT !.issued = "DeleteSaveAction", !.fatal = "IndexError"]
        ELSE [m EXCEPT !.issued = "DeleteSaveAction", !.ui.saves[k] = FALSE]

\* The leveler of the player a save holds: level-ups are due.
SavedLeveler ==
    [level |-> 1, due |-> MaxLevelUps,
     attributes |-> [a \in { "POWER", "VITALITY", "AGILITY", "SAGE" } |-> 0]]

\* ContinueGameAction.perform followed by ListSavesMenuState.perform: the
\* save is loaded (its player and its run status) and the gamestate is a new
\* ExploreState.
ContinueGameAction(m) ==
    FreshState([m EXCEPT !.issued = "ContinueGameAction",
                         !.msgs = Append(@, "Welcome back"),
                         !.ui.leveler = SavedLeveler,
                         !.ui.save_meta.status = "IN_PROGRESS",
                         !.ui.saved = "none",
                         !.gamestate = ExploreState])

\* A ConfirmBoxState is opened by the current state for one of its
\* Confirmation fields, which it sets to a new Confirmation().
OpenConfirmBox(m, field) ==
    LET asked ==
          IF field = "confirm_overwrite"
          THEN [m EXCEPT !.ui.confirm_overwrite = Confirmation(FALSE)]
          ELSE IF field = "confirm_delete"
          THEN [m EXCEPT !.ui.confirm_delete = Confirmation(FALSE)]
          ELSE [m EXCEPT !.ui.confirm_savequit = Confirmation(FALSE)]
    IN  [asked EXCEPT !.ui.box = field, !.ui.parent = m.gamestate,
                      !.ui.bypassable = TRUE,
                      !.issued = "ConfirmBoxState",
                      !.gamestate = ConfirmBoxState]

\* "self.confirmation.result = True" of the open box.
SetResult(m) ==
    IF m.ui.box = "confirm_overwrite"
    THEN [m EXCEPT !.ui.confirm_overwrite = Confirmation(TRUE)]
    ELSE IF m.ui.box = "confirm_delete"
    THEN [m EXCEPT !.ui.confirm_delete = Confirmation(TRUE)]
    ELSE [m EXCEPT !.ui.confirm_savequit = Confirmation(TRUE)]

ConfirmBoxState_handle_input_AnyOption(m, player_input) ==
    IF player_input \in CONFIRM_KEYS
    THEN LET m1 == SetResult(m)
         IN  [m1 EXCEPT !.issued = m.ui.parent.name,
                        !.gamestate = m.ui.parent, !.ui.box = "none",
                        !.ui.parent = None]
    ELSE IF player_input \in DOMAIN MOVE_KEYS
    THEN IF MOVE_KEYS[player_input] = <<0, -1>> THEN MoveCursor(m, -1)
         ELSE IF MOVE_KEYS[player_input] = <<0, 1>> THEN MoveCursor(m, 1)
         ELSE m
    ELSE m

\* ConfirmBoxState.handle_input and State.perform
ConfirmBoxState_handle_input(m, player_input) ==
    IF player_input \in CONFIRM_KEYS
    THEN LET m1 == IF m.gamestate.cursor_index_y = 0 THEN SetResult(m)
                   ELSE m
         IN  [m1 EXCEPT !.issued = m.ui.parent.name,
                        !.gamestate = m.ui.parent, !.ui.box = "none",
                        !.ui.parent = None]
    ELSE IF player_input \in DOMAIN MOVE_KEYS
    THEN IF MOVE_KEYS[player_input] = <<0, -1>> THEN MoveCursor(m, -1)
         ELSE IF MOVE_KEYS[player_input] = <<0, 1>> THEN MoveCursor(m, 1)
         ELSE m
    ELSE m

\* ListSavesMenuState.perform on a State: the name entry is entered from the
\* saves menu, which it keeps as prev_state, with an empty name.
EnterName(m) ==
    [m EXCEPT !.issued = "EnterNameState", !.gamestate = EnterNameState,
              !.ui.parent = m.gamestate, !.ui.name_length = 0]

\* "not self.saves[self.cursor_index_y].is_empty"; NONE for an IndexError.
Occupied(m) == PyIndex(NumSaves, m.gamestate.cursor_index_y)

\* MainMenuState.handle_input and State.perform.  The options are New Game,
\* Continue Game, Help and Quit.
MainMenuState_handle_input(m, player_input) ==
    IF player_input \in CONFIRM_KEYS
    THEN LET k == PyIndex(4, m.gamestate.cursor_index_y)
         IN  IF k = NONE THEN [m EXCEPT !.fatal = "IndexError"]
             ELSE IF k = 1 THEN Switch(FreshState(m), StartNewGameMenuState)
             ELSE IF k = 2 THEN Switch(FreshState(m), ContinueGameMenuState)
             ELSE IF k = 3 THEN [m EXCEPT !.issued = "DoNothingAction",
                                          !.ret = TRUE]
             ELSE QuitGameAction(m)
    ELSE IF player_input \in DOMAIN MOVE_KEYS
    THEN IF MOVE_KEYS[player_input] = <<-1, 0>> THEN MoveCursor(m, -1)
         ELSE IF MOVE_KEYS[player_input] = <<1, 0>> THEN MoveCursor(m, 1)
         ELSE m
    ELSE IF player_input \in EXIT_KEYS THEN QuitGameAction(m)
    ELSE m

\* ListSavesMenuState.handle_input returns an action: the key moves the
\* cursor up or down.
MovesSavesCursor(player_input) ==
    /\ player_input \in DOMAIN MOVE_KEYS
    /\ MOVE_KEYS[player_input] \in { <<-1, 0>>, <<1, 0>> }

\* The rest of a saves menu's handle_input, from "self.bypassable = False"
\* on; pending is the value action_or_state has at that point.
SavesMenuKeys(m0, player_input, pending, overwrites) ==
    LET m == [m0 EXCEPT !.ui.bypassable = FALSE]
        k == Occupied(m)
    IN  IF player_input \in CONFIRM_KEYS
        THEN IF k = NONE THEN [m EXCEPT !.fatal = "IndexError"]
             ELSE IF overwrites
             THEN IF m.ui.saves[k]
                  THEN OpenConfirmBox(m, "confirm_overwrite")
                  ELSE EnterName(m)
             ELSE IF ~m.ui.saves[k]
             THEN [m EXCEPT !.issued = "DoNothingAction", !.ret = TRUE]
             ELSE ContinueGameAction(m)
        ELSE IF player_input = "x"
        THEN IF k = NONE THEN [m EXCEPT !.fatal = "IndexError"]
             ELSE IF m.ui.saves[k] THEN OpenConfirmBox(m, "confirm_delete")
             ELSE IF pending THEN EnterName(m) ELSE m
        ELSE IF player_input \in BACK_KEYS
        THEN Switch(FreshState(m), MainMenuState)
        ELSE IF player_input \in EXIT_KEYS THEN QuitGameAction(m)
        ELSE IF pending THEN EnterName(m) ELSE m

\* StartNewGameMenuState.handle_input and ListSavesMenuState.perform
StartNewGameMenuState_handle_input(m, player_input) ==
    IF MovesSavesCursor(player_input)
    THEN MoveCursor(m, MOVE_KEYS[player_input][1])
    ELSE LET pending == Confirmed(m.ui.confirm_overwrite)
             m1 == IF pending THEN [m EXCEPT !.ui.confirm_overwrite = None]
                   ELSE m
         IN  IF Confirmed(m1.ui.confirm_delete)
             THEN DeleteSaveAction([m1 EXCEPT !.ui.confirm_delete = None],
                                   m.gamestate.cursor_index_y)
             ELSE SavesMenuKeys(m1, player_input, pending, TRUE)

\* ContinueGameMenuState.handle_input and ListSavesMenuState.perform
ContinueGameMenuState_handle_input(m, player_input) ==
    IF MovesSavesCursor(player_input)
    THEN MoveCursor(m, MOVE_KEYS[player_input][1])
    ELSE IF Confirmed(m.ui.confirm_delete)
    THEN DeleteSaveAction([m EXCEPT !.ui.confirm_delete = None],
                          m.gamestate.cursor_index_y)
    ELSE SavesMenuKeys(m, player_input, FALSE, FALSE)

\* EnterNameState.handle_input and EnterNameState.perform.  The confirm
\* branch calls StartNewGameAction(save, saves_dir, index, player_name=...)
\* without the seed argument that StartNewGameAction.__init__ requires.
EnterNameState_handle_input(m, player_input) ==
    IF player_input \in BACK_KEYS
    THEN [m EXCEPT !.issued = "EnterNameState",
                   !.ui.name_length = IF @ = 0 THEN 0 ELSE @ - 1]
    ELSE IF player_input \in CONFIRM_KEYS
    THEN [m EXCEPT !.fatal = "TypeError"]
    ELSE IF IsNameCharacter(player_input)
    THEN [m EXCEPT !.issued = "EnterNameState",
                   !.ui.name_length = IF @ < MAX_NAME_LENGTH THEN @ + 1
                                      ELSE @]
    ELSE m

\* ExploreState.handle_input and ExploreState.perform for the keys that are
\* no command of the dungeon: wait, exit and the keys bound to nothing.
ExploreState_handle_input(m, player_input) ==
    IF Confirmed(m.ui.confirm_savequit)
    THEN SaveAndQuitAction([m EXCEPT !.ui.confirm_savequit = None])
    ELSE IF Confirmed(m.ui.confirm_mainquest_finish)
    THEN SaveAndQuitAction([m EXCEPT !.ui.confirm_savequit = None])
    ELSE LET m1 == [m EXCEPT !.ui.bypassable = FALSE]
         IN  IF player_input \in WAIT_KEYS
             THEN [m1 EXCEPT !.issued = "DoNothingAction",
                             !.msgs = Append(@, "You take no action"),
                             !.turns = @ + 1, !.ret = TRUE]
             ELSE IF player_input \in EXIT_KEYS
             THEN OpenConfirmBox(m1, "confirm_savequit")
             ELSE m1

\* GameOverState.handle_input and GameOverState.perform
GameOverState_handle_input(m, player_input) ==
    IF player_input \in ANY_KEYS
    THEN [FreshState(OnPlayerDeathAction(m)) EXCEPT
            !.gamestate = MainMenuState, !.ui.leveler = None]
    ELSE m

\* The state shown after the win: an accepted key performs OnPlayerWinAction.
GameWinEndState_handle_input(m, player_input) ==
    IF player_input \in ANY_KEYS THEN OnPlayerWinAction(m) ELSE m

\* The attributes table of LevelUpSelectionState.handle_input, NONE for a
\* KeyError.
AttributeAt(x, y) ==
    IF x = 0 /\ y = 0 THEN "POWER"
    ELSE IF x = 0 /\ y = 1 THEN "VITALITY"
    ELSE IF x = 1 /\ y = 0 THEN "AGILITY"
    ELSE IF x = 1 /\ y = 1 THEN "SAGE"
    ELSE "KeyError"

\* Leveler.can_level_up
can_level_up(leveler) == leveler.due > 0

\* LevelUpAction.perform: leveler.level_up(), then
\* leveler.increment_attribute(attribute).
LevelUpAction(m, attribute) ==
    [m EXCEPT !.issued = "LevelUpAction",
              !.ui.leveler.level = @ + 1, !.ui.leveler.due = @ - 1,
              !.ui.leveler.attributes[attribute] = @ + 1,
              !.msgs = Append(@, "Leveled up"), !.ret = FALSE]

LevelUpSelectionState_handle_input_AlwaysExits(m, player_input) ==
    IF player_input \in DOMAIN MOVE_KEYS
    THEN LET d == MOVE_KEYS[player_input]
             moved ==
               IF d = <<-1, 0>>
               THEN [m EXCEPT !.gamestate.cursor_index_x = @ - 1]
               ELSE IF d = <<0, 1>>
               THEN [m EXCEPT !.gamestate.cursor_index_y = @ + 1]
               ELSE IF d = <<1, 0>>
               THEN [m EXCEPT !.gamestate.cursor_index_x = @ + 1]
               ELSE IF d = <<0, -1>>
               THEN [m EXCEPT !.gamestate.cursor_index_y = @ - 1]
               ELSE m
         IN  [moved EXCEPT !.issued = "DoNothingAction", !.ret = TRUE]
    ELSE IF player_input \in CONFIRM_KEYS
    THEN LET attribute == AttributeAt(m.gamestate.cursor_index_x,
                                      m.gamestate.cursor_index_y)
         IN  IF attribute = "KeyError"
             THEN [m EXCEPT !.fatal = "KeyError"]
             ELSE LET m1 == LevelUpAction(m, attribute)
                  IN  FreshState([m1 EXCEPT !.gamestate = ExploreState])
    ELSE m

\* LevelUpSelectionState.handle_input and LevelUpSelectionState.perform
LevelUpSelectionState_handle_input(m, player_input) ==
    IF player_input \in DOMAIN MOVE_KEYS
    THEN LET d == MOVE_KEYS[player_input]
             moved ==
               IF d = <<-1, 0>>
               THEN [m EXCEPT !.gamestate.cursor_index_x = @ - 1]
               ELSE IF d = <<0, 1>>
               THEN [m EXCEPT !.gamestate.cursor_index_y = @ + 1]
               ELSE IF d = <<1, 0>>
               THEN [m EXCEPT !.gamestate.cursor_index_x = @ + 1]
               ELSE IF d = <<0, -1>>
               THEN [m EXCEPT !.gamestate.cursor_index_y = @ - 1]
               ELSE m
         IN  [moved EXCEPT !.issued = "DoNothingAction", !.ret = TRUE]
    ELSE IF player_input \in CONFIRM_KEYS
    THEN LET attribute == AttributeAt(m.gamestate.cursor_index_x,
                                      m.gamestate.cursor_index_y)
         IN  IF attribute = "KeyError"
             THEN [m EXCEPT !.fatal = "KeyError"]
             ELSE LET m1 == LevelUpAction(m, attribute)
                  IN  IF can_level_up(m1.ui.leveler) THEN m1
                      ELSE FreshState([m1 EXCEPT !.gamestate = ExploreState])
    ELSE m

InitMenu ==
    /\ gamestate = MainMenuState
    /\ \E saves \in [1..NumSaves -> BOOLEAN] :
         ui = [saves |-> saves, parent |-> None, box |-> "none",
               confirm_overwrite |-> None, confirm_delete |-> None,
               confirm_savequit |-> None, confirm_mainquest_finish |-> None,
               bypassable |-> FALSE, name_length |-> 0,
               save_meta |-> [status |-> "IN_PROGRESS"], saved |-> "none",
               leveler |-> None]
    /\ tiles = InitTiles
    /\ entities = <<>>
    /\ inventory = <<>>
    /\ max_slots = NumSlots
    /\ equipped = {}
    /\ turns = 0
    /\ slayed = 0
    /\ fatal = "none"
    /\ act = [name |-> "None", key |-> "", state |-> "none"]
    /\ ret = FALSE
    /\ msgs = <<>>
    /\ rolls = <<>>
    /\ hits = <<>>
    /\ result = None
    /\ dungeon = None
    /\ generated = <<>>
    /\ weapon = None
    /\ builder = None

\* One pass of the game loop in the state of the given class, which leaves
\* the menus as the record m describes.
CommitMenu(m, player_input) ==
    /\ gamestate' = m.gamestate
    /\ ui' = m.ui
    /\ fatal' = m.fatal
    /\ ret' = m.ret
    /\ turns' = m.turns
    /\ msgs' = m.msgs
    /\ act' = [name |-> m.issued, key |-> player_input,
               state |-> gamestate.name]
    /\ UNCHANGED <<tiles, entities, inventory, max_slots, equipped, slayed,
                   rolls, hits, result, dungeon, generated, weapon, builder>>

\* The game loop runs and the gamestate is of the class named.
InState(name) == fatal = "none" /\ gamestate.name = name

\* The cursors of the state the step leaves stay within the cursor bound.
CursorsBounded(m) ==
    /\ m.gamestate.cursor_index_y \in (0 - MaxCursor)..MaxCursor
    /\ m.gamestate.name = "LevelUpSelectionState"
       => m.gamestate.cursor_index_x \in (0 - MaxCursor)..MaxCursor

MainMenuInput ==
    /\ InState("MainMenuState")
    /\ \E player_input \in Keys :
         \E m \in {MainMenuState_handle_input(Menu, player_input)} :
           /\ CursorsBounded(m)
           /\ CommitMenu(m, player_input)

StartNewGameMenuInput ==
    /\ InState("StartNewGameMenuState")
    /\ \E player_input \in Keys :
         \E m \in {StartNewGameMenuState_handle_input(Menu, player_input)} :
           /\ CursorsBounded(m)
           /\ CommitMenu(m, player_input)

ContinueGameMenuInput ==
    /\ InState("ContinueGameMenuState")
    /\ \E player_input \in Keys :
         \E m \in {ContinueGameMenuState_handle_input(Menu, player_input)} :
           /\ CursorsBounded(m)
           /\ CommitMenu(m, player_input)

ConfirmBoxInput ==
    /\ InState("ConfirmBoxState")
    /\ \E player_input \in Keys :
         \E m \in {ConfirmBoxState_handle_input(Menu, player_input)} :
           /\ CursorsBounded(m)
           /\ CommitMenu(m, player_input)

EnterNameInput ==
    /\ InState("EnterNameState")
    /\ \E player_input \in Keys :
         \E m \in {EnterNameState_handle_input(Menu, player_input)} :
           /\ CommitMenu(m, player_input)

ExploreMenuInput ==
    /\ InState("ExploreState")
    /\ \E player_input \in Keys \ DOMAIN MOVE_KEYS :
         \E m \in {ExploreState_handle_input(Menu, player_input)} :
           /\ m.turns <= MaxTurns
           /\ CommitMenu(m, player_input)

GameOverInput ==
    /\ InState("GameOverState")
    /\ \E player_input \in Keys :
         \E m \in {GameOverState_handle_input(Menu, player_input)} :
           /\ CommitMenu(m, player_input)

GameWinEndInput ==
    /\ InState("GameWinEndState")
    /\ \E player_input \in Keys :
         \E m \in {GameWinEndState_handle_input(Menu, player_input)} :
           /\ CommitMenu(m, player_input)

LevelUpSelectionInput ==
    /\ InState("LevelUpSelectionState")
    /\ \E player_input \in Keys :
         \E m \in {LevelUpSelectionState_handle_input(Menu, player_input)} :
           /\ CursorsBounded(m)
           /\ CommitMenu(m, player_input)

\* What the rest of the game does to the gamestate of an exploring player:
\* the player dies, the player leaves the dungeon with the relic
\* (AscendStairsAction on the first floor), a level-up is due.
LeaveExploreState ==
    /\ InState("ExploreState")
    /\ ~ui.bypassable
    /\ \E state \in { GameOverState, GameWinEndState, LevelUpSelectionState } :
        /\ state.name = "LevelUpSelectionState" => can_level_up(ui.leveler)
        /\ CommitMenu([Menu EXCEPT !.gamestate = state,
                                   !.issued = state.name], "")

NextMenu ==
    \/ MainMenuInput
    \/ StartNewGameMenuInput
    \/ ContinueGameMenuInput
    \/ ConfirmBoxInput
    \/ EnterNameInput
    \/ ExploreMenuInput
    \/ GameOverInput
    \/ GameWinEndInput
    \/ LevelUpSelectionInput
    \/ LeaveExploreState

SpecMenu == InitMenu /\ [][NextMenu]_vars

-----------------------------------------------------------------------------
(* The Inventory component on its own: any sequence of add_item, add_items, *)
(* get_item and remove_item calls on an inventory built with any capacity   *)
(* from 1 to NumSlots + 1.                                                  *)

MaxArgLen == 2         \* longest list handed to add_items

ItemSet == { ItemEntity(k) : k \in 1..NumItems }

ArgLists == UNION { [1..n -> ItemSet] : n \in 0..MaxArgLen }

Indexes == (0 - NumSlots - 2)..(NumSlots + 2)

InitInv ==
    /\ tiles = InitTiles
    /\ entities = <<>>
    /\ inventory = <<>>
    /\ max_slots \in 1..(NumSlots + 1)
    /\ equipped = {}
    /\ turns = 0
    /\ slayed = 0
    /\ fatal = "none"
    /\ act = [name |-> "none", arg |-> None]
    /\ ret = FALSE
    /\ msgs = <<>>
    /\ rolls = <<>>
    /\ hits = <<>>
    /\ result = None
    /\ dungeon = start(InitFloor)
    /\ gamestate = ExploreState
    /\ generated = <<>>
    /\ weapon = None
    /\ builder = None
    /\ ui = None

CommitInv(r, a) ==
    \E c \in {r} :
        /\ inventory' = c.items
        /\ result' = c.returned
        /\ act' = a
        /\ UNCHANGED <<tiles, entities, max_slots, equipped, turns, slayed,
                       fatal, ret, msgs, rolls, hits, dungeon, gamestate,
                       generated, weapon, builder, ui>>

CallAddItem ==
    \E item \in ItemSet :
        CommitInv(add_item(inventory, item),
                  [name |-> "add_item", arg |-> [item |-> item]])

CallAddItems ==
    \E arg \in ArgLists :
        CommitInv(add_items(inventory, arg),
                  [name |-> "add_items", arg |-> [list |-> arg]])

CallGetItem ==
    \E item_idx \in Indexes :
        CommitInv(get_item(inventory, item_idx),
                  [name |-> "get_item", arg |-> [index |-> item_idx]])

CallRemoveItem ==
    \E item_idx \in Indexes :
        CommitInv(remove_item(inventory, item_idx),
                  [name |-> "remove_item", arg |-> [index |-> item_idx]])

NextInv ==
    \/ CallAddItem
    \/ CallAddItems
    \/ CallGetItem
    \/ CallRemoveItem

SpecInv == InitInv /\ [][NextInv]_vars

-----------------------------------------------------------------------------
(* Vocabulary of the properties.                                            *)

Range(seq) == { seq[k] : k \in 1..Len(seq) }

\* The last step ran the perform() of the named action.
Called(a, name) == \E k \in 1..Len(a.calls) : a.calls[k] = name

InBounds(x, y) ==
    x >= 0 /\ x <= FloorHeight - 1 /\ y >= 0 /\ y <= FloorWidth - 1

Walkable(x, y) == InBounds(x, y) /\ tiles[x][y]

Positions(ents) == { <<e.id, e.x, e.y>> : e \in Range(ents) }

Healths(ents) == { <<e.id, e.health>> : e \in Range(ents) }

IsAttackRoll(r) == r[1] \in {"hit", "double_hit", "critical"}

\* The rolls of the fighter among the rolls of a step, in order.
AttackRolls(r) == SelectSeq(r, IsAttackRoll)

-----------------------------------------------------------------------------
\* C1: a move (bump) of any actor whose target cell is out of bounds or not
\* walkable returns turn-not-consumed and changes neither the entities (the
\* actor's position included), nor the tile grid, the turn counter, the kill
\* counter or the inventory; only messages are added.
C1_RejectedMoveChangesNothing ==
    [][ \A i \in 1..Len(entities) :
            ( /\ Called(act', "BumpAction")
              /\ entities[i].id = act'.id
              /\ ~Walkable(entities[i].x + act'.dx, entities[i].y + act'.dy) )
            => ( /\ ret' = FALSE
                 /\ entities' = entities
                 /\ tiles' = tiles
                 /\ turns' = turns
                 /\ slayed' = slayed
                 /\ inventory' = inventory
                 /\ equipped' = equipped
                 /\ fatal' = fatal ) ]_vars

\* The player has just bumped into the edge of the floor.
C1_Witness ==
    /\ act.name = "BumpAction"
    /\ Called(act, "WalkAction")
    /\ ~InBounds(Player(entities).x + act.dx, Player(entities).y + act.dy)
    /\ msgs = <<"Out of bounds">>
    /\ ret = FALSE

\* C2: a bump into a cell held by a blocking entity that is not an ally of
\* the player is resolved as MeleeAction in that direction: the step has the
\* outcome of MeleeAction for some outcome of its rolls, nobody changes cell
\* and the entity list keeps its length.
C2_BumpIntoOccupantIsMelee ==
    [][ \A i \in 1..Len(entities), b \in 1..Len(entities) :
            ( /\ Called(act', "BumpAction")
              /\ entities[i].id = act'.id
              /\ b = blocking_entity_at(entities, entities[i].x + act'.dx,
                                        entities[i].y + act'.dy)
              /\ ~(IsPlayer(entities[i]) /\ entities[b].ai = "ally") )
            => ( /\ Positions(entities') = Positions(entities)
                 /\ Len(entities') = Len(entities)
                 /\ \E rng \in Rng :
                         \E m \in {MeleeAction(World, i, act'.dx, act'.dy, rng)} :
                        /\ entities' = m.entities
                        /\ turns' = m.turns
                        /\ slayed' = m.slayed
                        /\ ret' = m.ret
                        /\ hits' = m.hits ) ]_vars

\* The player has just bumped into the enemy creature and hit it.
C2_Witness ==
    /\ act.name = "BumpAction"
    /\ act.calls = <<"BumpAction", "MeleeAction">>
    /\ hits # <<>>
    /\ ret = TRUE

\* C3: when the player bumps into a blocking ally, the two exchange cells,
\* nothing else changes (no health value in particular) and the bump returns
\* turn-consumed; when an AI-controlled creature bumps into an ally, nobody
\* changes cell.
C3_AllySwap ==
    [][ \A i \in 1..Len(entities), b \in 1..Len(entities) :
            ( /\ Called(act', "BumpAction")
              /\ entities[i].id = act'.id
              /\ b = blocking_entity_at(entities, entities[i].x + act'.dx,
                                        entities[i].y + act'.dy)
              /\ entities[b].ai = "ally" )
            => IF IsPlayer(entities[i])
               THEN /\ entities' =
                         [entities EXCEPT ![i].x = entities[b].x,
                                          ![i].y = entities[b].y,
                                          ![b].x = entities[i].x,
                                          ![b].y = entities[i].y]
                    /\ Healths(entities') = Healths(entities)
                    /\ ret' = TRUE
               ELSE Positions(entities') = Positions(entities) ]_vars

\* The player has just swapped places with the ally: a bump that consumed
\* the turn without walking or attacking.
C3_Witness ==
    /\ act.name = "BumpAction"
    /\ act.calls = <<"BumpAction">>
    /\ ret = TRUE
    /\ \E e \in Range(entities) :
         e.ai = "ally" /\ e.x = Player(entities).x - act.dx
                       /\ e.y = Player(entities).y - act.dy

\* C4: an attack rolls the hit chance first; on a miss it returns
\* turn-consumed, makes no further roll, applies no damage and leaves the
\* entity list (healths, order, corpses) and the kill counter as they were.
C4_MissOnlyConsumesTurn ==
    [][ (Called(act', "MeleeAction") /\ fatal' = "none")
        => \E fr \in {AttackRolls(rolls')} :
             /\ fr[1][1] = "hit"
             /\ ~fr[1][2] =>
                  ( /\ ret' = TRUE
                    /\ Len(fr) = 1
                    /\ hits' = <<>>
                    /\ entities' = entities
                    /\ slayed' = slayed ) ]_vars

\* An attack has just missed.
C4_Witness ==
    /\ Called(act, "MeleeAction")
    /\ AttackRolls(rolls) = << <<"hit", FALSE>> >>
    /\ ret = TRUE

EntityById(ents, id) == ents[IndexOfId(ents, id)]

IsFighter(e) == e.kind \in {"player", "creature"}

\* Every corpse of the list comes after every living fighter.
DeadAfterLiving(ents) ==
    \A j \in 1..Len(ents), k \in 1..Len(ents) :
        (j < k /\ IsFighter(ents[j]) /\ is_dead(ents[j]))
        => ~(IsFighter(ents[k]) /\ ~is_dead(ents[k]))

\* The last step killed the fighter that is t-th in the entity list.
Killed(ents, ents2, t) ==
    /\ IsFighter(ents[t])
    /\ ~is_dead(ents[t])
    /\ IndexOfId(ents2, ents[t].id) # NONE
    /\ is_dead(EntityById(ents2, ents[t].id))

\* C5: on a hit, whoever attacks whom, damage is applied twice if the
\* double-hit roll succeeded and once otherwise, each application after a
\* critical roll of its own that selects critical damage or base damage.
C5_DamageApplications ==
    (Called(act, "MeleeAction") /\ fatal = "none"
        /\ AttackRolls(rolls)[1] = <<"hit", TRUE>>)
    => \E fr \in {AttackRolls(rolls)} :
         \E n \in {IF fr[2] = <<"double_hit", TRUE>> THEN 2 ELSE 1} :
           /\ Len(hits) = n
           /\ Len(fr) = 2 + n
           /\ \A k \in 1..n :
                /\ fr[2 + k][1] = "critical"
                /\ hits[k] = IF fr[2 + k][2]
                             THEN EntityById(entities, act.id).critical_damage
                             ELSE EntityById(entities, act.id).damage

\* C5 for the fights the player takes part in (as attacker or as target).
C5_PlayerFights ==
    (\E t \in Range(entities) :
        /\ IsPlayer(t) \/ act.id = PLAYER_ID
        /\ t.x = EntityById(entities, act.id).x + act.dx
        /\ t.y = EntityById(entities, act.id).y + act.dy
        /\ IsFighter(t))
    => C5_DamageApplications

\* C6: whenever an attack leaves its target's health at 0 or below, whoever
\* the two are, the target stays in the entity list, whose length does not
\* change, and comes after every living entity of it.
C6_DeadHandledOnce ==
    [][ \A t \in 1..Len(entities) :
            (Called(act', "MeleeAction") /\ Killed(entities, entities', t))
            => ( /\ Len(entities') = Len(entities)
                 /\ DeadAfterLiving(entities') ) ]_vars

\* C7: whenever an attack kills its target, the slain message is emitted and
\* the attacker's leveler absorbs the target's experience drop, whoever the
\* attacker is; the kill counter goes up by one exactly when the attacker is
\* the player.
C7_SlainMessageAndExperience ==
    [][ \A t \in 1..Len(entities) :
            (Called(act', "MeleeAction") /\ Killed(entities, entities', t))
            => ( /\ "has perished!" \in Range(msgs')
                 /\ EntityById(entities', act'.id).experience =
                        EntityById(entities, act'.id).experience
                        + entities[t].experience_drop
                 /\ slayed' = slayed
                        + (IF act'.id = PLAYER_ID THEN 1 ELSE 0) ) ]_vars

\* The fighter standing on the cell the last step's actor aimed at.
Target(ents, a) ==
    { e \in Range(ents) :
        /\ IsFighter(e)
        /\ e.x = EntityById(ents, a.id).x + a.dx
        /\ e.y = EntityById(ents, a.id).y + a.dy }

\* An AI-controlled creature has just hit another one, its double-hit roll
\* succeeded, and damage was applied once.
C5_Witness ==
    /\ Called(act, "MeleeAction")
    /\ act.id # PLAYER_ID
    /\ \E t \in Target(entities, act) : ~IsPlayer(t)
    /\ Len(AttackRolls(rolls)) = 3
    /\ AttackRolls(rolls)[2] = <<"double_hit", TRUE>>
    /\ Len(hits) = 1

\* An AI-controlled creature has just killed another one, and the corpse
\* stands before a living fighter in the entity list.
C6_Witness ==
    /\ Called(act, "MeleeAction")
    /\ act.id # PLAYER_ID
    /\ \E t \in Target(entities, act) : ~IsPlayer(t) /\ is_dead(t)
    /\ ~DeadAfterLiving(entities)

\* An AI-controlled creature has just killed another one: no slain message
\* was emitted and the killer has absorbed no experience.
C7_Witness ==
    /\ Called(act, "MeleeAction")
    /\ act.id # PLAYER_ID
    /\ hits # <<>>
    /\ \E t \in Target(entities, act) : ~IsPlayer(t) /\ is_dead(t)
    /\ "has perished!" \notin Range(msgs)
    /\ EntityById(entities, act.id).experience = 0

\* How many times the item with this id occurs in a list.
Occurrences(seq, id) == Cardinality({ k \in 1..Len(seq) : seq[k].id = id })

\* Every item is in exactly one place: once in the floor's entity list or
\* once in the inventory.
ItemsInOnePlace ==
    \A k \in 1..NumItems :
        Occurrences(entities, ItemEntity(k).id)
        + Occurrences(inventory, ItemEntity(k).id) = 1

\* Index of the first item lying on the cell of the entity with this id.
ItemUnder(ents, id) ==
    LET Underfoot(e) == IsItem(e) /\ e.x = EntityById(ents, id).x
                                  /\ e.y = EntityById(ents, id).y
    IN  FirstIndex({ k \in 1..Len(ents) : Underfoot(ents[k]) })

\* C8: PickUp changes state only if an item lies on the actor's cell and the
\* inventory has a free slot; it then moves exactly that item from the
\* floor's entity list to the end of the inventory; so every item is always
\* in exactly one of the floor's entity list and the inventory.
C8_PickUpMovesOneItem ==
    /\ []ItemsInOnePlace
    /\ [][ Called(act', "PickUpItemAction")
           => \E k \in {ItemUnder(entities, act'.id)} :
                IF k # NONE /\ size(inventory) < max_slots
                THEN /\ entities' = RemoveAt(entities, k)
                     /\ inventory' = Append(inventory, entities[k])
                     /\ UNCHANGED <<equipped, turns, slayed, tiles>>
                ELSE UNCHANGED <<entities, inventory, equipped, turns,
                                 slayed, tiles>> ]_vars

\* The player has just picked an item up.
C8_Witness ==
    /\ act.name = "PickUpItemAction"
    /\ msgs = <<"You picked up">>
    /\ Len(inventory) >= 1
    /\ inventory[Len(inventory)].x = Player(entities).x
    /\ inventory[Len(inventory)].y = Player(entities).y

\* Floor.items as a list.
FloorItems(ents) == SelectSeq(ents, IsItem)

\* C9: PickUp with a full inventory (size = max_slots) leaves the floor's
\* items and the inventory's items as they were and returns
\* turn-not-consumed.
C9_PickUpWhenFull ==
    [][ (Called(act', "PickUpItemAction") /\ size(inventory) = max_slots)
        => ( /\ FloorItems(entities') = FloorItems(entities)
             /\ inventory' = inventory
             /\ ret' = FALSE ) ]_vars

\* The player, standing on an item with a full inventory, has just tried to
\* pick it up.
C9_Witness ==
    /\ act.name = "PickUpItemAction"
    /\ size(inventory) = max_slots
    /\ ItemUnder(entities, PLAYER_ID) # NONE
    /\ msgs = <<"There is not enough space">>

\* C10 as stated: the size never exceeds max_slots, and add_item on a full
\* inventory leaves the item list unchanged and reports the failure: it
\* returns something else than what a successful add_item returns (None).
C10_AddItemReportsFailure ==
    /\ [](size(inventory) <= max_slots)
    /\ [][ (act'.name = "add_item" /\ size(inventory) >= max_slots)
           => (inventory' = inventory /\ result' # None) ]_vars

\* C10 as the code has it: the size never exceeds max_slots; add_item on a
\* full inventory leaves the item list unchanged, on an inventory with room
\* it appends the item, and in both cases it returns None.
C10_AddItemSilent ==
    /\ [](size(inventory) <= max_slots)
    /\ [][ act'.name = "add_item"
           => /\ result' = None
              /\ inventory' = IF size(inventory) >= max_slots
                              THEN inventory
                              ELSE Append(inventory, act'.arg.item) ]_vars

\* add_item has just been refused on a full inventory of capacity >= 1.
C10_Witness ==
    /\ act.name = "add_item"
    /\ max_slots >= 1
    /\ size(inventory) = max_slots
    /\ act.arg.item \notin Range(inventory)
    /\ result = None

-----------------------------------------------------------------------------
\* C11: Drop of an item held in the actor's inventory removes exactly that
\* item from the inventory (whose size goes down by one), leaves it
\* unequipped, and puts it into the floor's entity list on the actor's cell.
C11_DropMovesItemToFloor ==
    [][ Called(act', "DropItemAction")
        => \E k \in 1..Len(inventory) :
             /\ inventory' = RemoveAt(inventory, k)
             /\ size(inventory') = size(inventory) - 1
             /\ inventory[k].id \notin equipped'
             /\ \E e \in Range(entities') :
                  /\ e.id = inventory[k].id
                  /\ e.x = EntityById(entities, act'.id).x
                  /\ e.y = EntityById(entities, act'.id).y ]_vars

\* The player has just tried to drop an item: the program stopped on an
\* uncaught TypeError with the item still in the inventory.
C11_Witness ==
    /\ act.name = "DropItemAction"
    /\ fatal = "TypeError"
    /\ size(inventory) >= 1
    /\ ItemsInOnePlace

-----------------------------------------------------------------------------
(* Vocabulary of the level transitions.                                    *)

\* The player stands on the staircase location of the current floor that
\* the kind of transition names, and there is such a location.
OnStaircase(kind) ==
    \E loc \in {IF kind = "descending"
                THEN current_floor(dungeon).descending_staircase_location
                ELSE current_floor(dungeon).ascending_staircase_location} :
        /\ loc # None
        /\ Player(entities).x = loc.x
        /\ Player(entities).y = loc.y

\* The last step (a refused command) changed nothing but the message log.
Refused(message) ==
    /\ dungeon' = dungeon
    /\ entities' = entities
    /\ tiles' = tiles
    /\ turns' = turns
    /\ gamestate' = gamestate
    /\ generated' = generated
    /\ msgs' = <<message>>
    /\ ret' = FALSE

\* C12: Descend (Ascend) changes current_floor_index only if the current
\* floor has a descending (ascending) staircase location and the player
\* stands on it: it then raises the index by one (lowers it by one, unless
\* on the first floor); otherwise the floor indexes, the floors, the
\* entities with the player's position and the turn counter stay as they
\* were and a rejection message is added.
C12_StairsOnlyOnStaircase ==
    [][ /\ Called(act', "DescendStairsAction")
           => IF OnStaircase("descending")
              THEN dungeon'.current_floor_index =
                       dungeon.current_floor_index + 1
              ELSE Refused("Can't descend here")
        /\ Called(act', "AscendStairsAction")
           => IF OnStaircase("ascending")
              THEN dungeon'.current_floor_index =
                       IF on_first_floor(dungeon)
                       THEN dungeon.current_floor_index
                       ELSE dungeon.current_floor_index - 1
              ELSE Refused("Can't ascend here") ]_vars

\* Descend has just been refused on a floor that has a descending staircase
\* the player does not stand on.
C12_Witness ==
    /\ act.name = "DescendStairsAction"
    /\ msgs = <<"Can't descend here">>
    /\ current_floor(dungeon).descending_staircase_location # None
    /\ ~OnStaircase("descending")

\* No value occurs twice in the sequence.
NoRepeats(seq) ==
    \A j \in 1..Len(seq), k \in 1..Len(seq) : seq[j] = seq[k] => j = k

\* C13: a successful Descend generates a floor (for the depth entered) if
\* and only if the current floor index equals the deepest generated index
\* when the command is given; no other command generates a floor; so no
\* depth is generated twice and the floors are those of depths 0..deepest.
C13_GenerateOnlyPastDeepest ==
    /\ [](NoRepeats(generated)
           /\ Len(dungeon.floors) = dungeon.deepest_floor_index + 1)
    /\ [][ /\ (Called(act', "DescendStairsAction")
                /\ OnStaircase("descending"))
               => IF dungeon.current_floor_index = dungeon.deepest_floor_index
                  THEN /\ generated' =
                            Append(generated, dungeon.current_floor_index + 1)
                       /\ dungeon'.deepest_floor_index =
                            dungeon.deepest_floor_index + 1
                       /\ Len(dungeon'.floors) = Len(dungeon.floors) + 1
                  ELSE /\ generated' = generated
                       /\ dungeon'.deepest_floor_index =
                            dungeon.deepest_floor_index
                       /\ Len(dungeon'.floors) = Len(dungeon.floors)
            /\ ~(Called(act', "DescendStairsAction")
                 /\ OnStaircase("descending"))
               => (generated' = generated
                   /\ Len(dungeon'.floors) = Len(dungeon.floors)) ]_vars

\* The player has just descended to a floor that had been generated by an
\* earlier descent: nothing was generated this time.
C13_Witness ==
    /\ act.name = "DescendStairsAction"
    /\ msgs = <<"You descend a level...">>
    /\ act.mid # None
    /\ act.mid.current_floor_index <= act.mid.deepest_floor_index
    /\ generated = <<1>>

\* C14: in every state current_floor_index <= deepest_floor_index + 1, also
\* in the middle of a descent (the index is raised before the next floor is
\* generated); and after every Descend or Ascend command
\* 0 <= current_floor_index <= deepest_floor_index.
C14_FloorIndexBounds ==
    /\ [](/\ dungeon.current_floor_index <= dungeon.deepest_floor_index + 1
           /\ act.mid # None
              => act.mid.current_floor_index
                     <= act.mid.deepest_floor_index + 1)
    /\ [][ (Called(act', "DescendStairsAction")
             \/ Called(act', "AscendStairsAction"))
            => (/\ 0 <= dungeon'.current_floor_index
                /\ dungeon'.current_floor_index
                       <= dungeon'.deepest_floor_index) ]_vars

\* The player has just descended past the deepest floor: in the middle of
\* the command the index was one more than the deepest index.
C14_Witness ==
    /\ act.name = "DescendStairsAction"
    /\ act.mid # None
    /\ act.mid.current_floor_index = act.mid.deepest_floor_index + 1
    /\ dungeon.current_floor_index = dungeon.deepest_floor_index
    /\ dungeon.deepest_floor_index = LastFloor

\* C15: Ascend on the first floor never changes current_floor_index and
\* records no turn; when the player stands on the ascending staircase, the
\* gamestate becomes the win state if the quest item is in the inventory,
\* and otherwise the gamestate stays and a message blocks the command.
C15_AscendOnFirstFloor ==
    [][ (Called(act', "AscendStairsAction") /\ on_first_floor(dungeon))
        => /\ dungeon' = dungeon
           /\ turns' = turns
           /\ ret' = FALSE
           /\ OnStaircase("ascending")
              => IF has_quest_item(inventory)
                 THEN gamestate' = GameWinEndState /\ msgs' = <<>>
                 ELSE /\ gamestate' = gamestate
                      /\ msgs' = <<"You must bring back the relic first!">>
       ]_vars

\* The player, holding the quest item, has just ascended from the first
\* floor's staircase and won.
C15_Witness ==
    /\ act.name = "AscendStairsAction"
    /\ gamestate = GameWinEndState
    /\ has_quest_item(inventory)
    /\ dungeon.current_floor_index = 0
    /\ turns = 0

\* The last step resolved a gameplay command of the player: a move (walk,
\* ally swap or attack), a wait, a level transition, a pick-up or a drop.
PlayerCommand(a, state) ==
    /\ a.id = PLAYER_ID
    /\ \/ a.name \in {"BumpAction", "DescendStairsAction",
                       "AscendStairsAction", "PickUpItemAction",
                       "DropItemAction"}
       \/ a.name = "DoNothingAction" /\ state.name = "ExploreState"

\* C16: every player command raises the persistent turn counter by exactly
\* one when its resolution returns turn-consumed (True) and leaves it
\* unchanged when it returns False.
C16_TurnCounterFollowsTurnable ==
    [][ (PlayerCommand(act', gamestate) /\ fatal' = "none")
        => turns' = turns + (IF ret' THEN 1 ELSE 0) ]_vars

\* The player has just descended: the command returned False and the turn
\* counter went up.
C16_Witness ==
    /\ act.name = "DescendStairsAction"
    /\ msgs = <<"You descend a level...">>
    /\ ret = FALSE
    /\ turns = 1

\* C16 for the commands other than the level transitions and the swap with
\* an ally: walking, attacking, waiting, picking up.
C16_OtherCommands ==
    [][ (/\ PlayerCommand(act', gamestate)
         /\ fatal' = "none"
         /\ act'.name \notin {"DescendStairsAction", "AscendStairsAction"}
         /\ act'.calls # <<"BumpAction">>)
        => turns' = turns + (IF ret' THEN 1 ELSE 0) ]_vars

\* The last step was the activation of a creature's AI component.
AIActivation(a) == a.name \in {"WanderingAI", "HostileEnemyAI"}

\* C17: no activation of an AI-controlled creature (a wander move, a hostile
\* move or an attack by the creature) changes the persistent turn counter.
C17_AINeverRecordsTurn ==
    [][ AIActivation(act') => turns' = turns ]_vars

\* Turns have been recorded, and a creature has just walked a step.
C17_Witness ==
    /\ AIActivation(act)
    /\ act.calls = <<"BumpAction", "WalkAction">>
    /\ ret = TRUE
    /\ turns >= 1

\* The last step was UI navigation: a cursor move resolved through
\* DoNothingAction outside the explore state, or a gamestate switch.
CursorMove(a, state) ==
    a.name = "DoNothingAction" /\ state.name # "ExploreState"

GamestateSwitch(a) == a.name \in {"InventoryMenuState", "ExploreState"}

\* C18: UI navigation never consumes a turn: a cursor movement in a menu
\* and every gamestate switch return turn-consumed = false.
C18_NavigationNeverTurnable ==
    [][ (CursorMove(act', gamestate) \/ GamestateSwitch(act'))
        => ret' = FALSE ]_vars

\* The inventory cursor has just moved and the move returned turn-consumed.
C18_Witness ==
    /\ act.name = "DoNothingAction"
    /\ gamestate.name = "InventoryMenuState"
    /\ gamestate.cursor_index_y # 0
    /\ ret = TRUE

\* The part of C18 the code keeps: a gamestate switch returns false, and no
\* UI navigation changes the turn counter.
C18_SwitchNotTurnable ==
    [][ /\ GamestateSwitch(act') => ret' = FALSE
        /\ (CursorMove(act', gamestate) \/ GamestateSwitch(act'))
             => turns' = turns ]_vars

\* The creature with entry i is within the aggro range of the player.
WithinAgroRange(ents, i) ==
    LET ddx == ents[i].x - Player(ents).x
        ddy == ents[i].y - Player(ents).y
    IN  ddx * ddx + ddy * ddy <= AGRO_RANGE * AGRO_RANGE

\* Every tile on the straight line from the creature to the player is
\* walkable.
ClearPath(ents, i) ==
    \A cell \in Range(bresenham_path_to(ents[i].x, ents[i].y,
                                        Player(ents).x, Player(ents).y)) :
        tiles[cell[1]][cell[2]]

\* C19: an AI activation leaves the creature Hostile if and only if, where
\* it and the player stood when it was activated, it was within the aggro
\* range of the player and no tile on the straight line to the player was
\* non-walkable, whatever its state before.
C19_HostileIffInRangeAndClear ==
    [][ (AIActivation(act') /\ fatal' = "none")
        => LET i == IndexOfId(entities, act'.id)
               j == IndexOfId(entities', act'.id)
           IN  /\ j # NONE
               /\ entities'[j].ai = "hostile"
                    <=> (WithinAgroRange(entities, i)
                         /\ ClearPath(entities, i)) ]_vars

\* A hostile creature has just gone back to wandering: out of range, with
\* nothing but floor between it and the player.
C19_Witness ==
    /\ act.name = "HostileEnemyAI"
    /\ LET i == IndexOfId(entities, act.id)
       IN  /\ entities[i].ai = "wandering"
           /\ ~WithinAgroRange(entities, i)
           /\ ClearPath(entities, i)

\* A wandering creature in range has just stayed wandering: a wall tile
\* lies between it and the player.
C19_WitnessObstructed ==
    /\ act.name = "WanderingAI"
    /\ act.calls = <<>>
    /\ LET i == IndexOfId(entities, act.id)
       IN  /\ entities[i].ai = "wandering"
           /\ WithinAgroRange(entities, i)
           /\ ~ClearPath(entities, i)

\* The second cell of the straight line from entity e to the player.
SecondCell(ents, e) ==
    bresenham_path_to(e.x, e.y, Player(ents).x, Player(ents).y)[2]

\* The last step was a melee attack on the player.
AttackedPlayer(a, messages) ==
    /\ Called(a, "MeleeAction")
    /\ \E k \in 1..Len(messages) : messages[k] \in {"hits you", "missed you"}

\* C20: a creature that is Hostile and stays Hostile on its activation
\* bumps toward the second cell of its straight line to the player: each
\* component of the step is in {-1, 0, 1}, the bump is an attack on the
\* player when that cell is the player's, and the creature does not end
\* the activation on the player's cell.
C20_HostileBumpsAlongPath ==
    [][ (act'.name = "HostileEnemyAI" /\ fatal' = "none")
        => LET e == EntityById(entities, act'.id)
               e2 == EntityById(entities', act'.id)
               p == Player(entities)
           IN  (e.ai = "hostile" /\ e2.ai = "hostile")
               => /\ Called(act', "BumpAction")
                  /\ act'.dx = SecondCell(entities, e)[1] - e.x
                  /\ act'.dy = SecondCell(entities, e)[2] - e.y
                  /\ act'.dx \in {-1, 0, 1} /\ act'.dy \in {-1, 0, 1}
                  /\ SecondCell(entities, e) = <<p.x, p.y>>
                       => AttackedPlayer(act', msgs')
                  /\ <<e2.x, e2.y>> # <<Player(entities').x,
                                         Player(entities').y>> ]_vars

\* A hostile creature next to the player has just attacked the player.
C20_Witness ==
    /\ act.name = "HostileEnemyAI"
    /\ AttackedPlayer(act, msgs)
    /\ EntityById(entities, act.id).ai = "hostile"
    /\ EntityById(entities, act.id).x + act.dx = Player(entities).x
    /\ EntityById(entities, act.id).y + act.dy = Player(entities).y

\* A hostile creature has just walked a step toward the player.
C20_WitnessWalk ==
    /\ act.name = "HostileEnemyAI"
    /\ act.calls = <<"BumpAction", "WalkAction">>
    /\ ret = TRUE

\* A hostile creature has just attacked the player with a diagonal step.
C20_WitnessDiagonal ==
    /\ act.name = "HostileEnemyAI"
    /\ AttackedPlayer(act, msgs)
    /\ Abs(act.dx) = 1 /\ Abs(act.dy) = 1

\* The entity list of the floor with index k as it is now: the variable
\* entities for the current floor, the list kept in the record otherwise.
FloorEntities(k) ==
    IF k = dungeon.current_floor_index
    THEN entities
    ELSE dungeon.floors[k + 1].entities

\* C27: the player is in the entity list of exactly one floor, the current
\* one, and is there exactly once: a level transition removes the player
\* from the floor left and adds it to the floor entered.
C27_PlayerOnOneFloor ==
    fatal = "none"
    => \A k \in 0..(Len(dungeon.floors) - 1) :
          Occurrences(FloorEntities(k), PLAYER_ID)
            = (IF k = dungeon.current_floor_index THEN 1 ELSE 0)

\* The player has just descended from floor 0 and is still listed there.
C27_Witness ==
    /\ act.name = "DescendStairsAction"
    /\ msgs = <<"You descend a level...">>
    /\ dungeon.current_floor_index = 1
    /\ Occurrences(FloorEntities(0), PLAYER_ID) = 1
    /\ Occurrences(FloorEntities(1), PLAYER_ID) = 1

\* The player came back to a floor visited before and is listed twice on it.
C27_WitnessTwice ==
    /\ act.name = "AscendStairsAction"
    /\ msgs = <<"You ascend a level...">>
    /\ Occurrences(entities, PLAYER_ID) = 2

\* The wielded weapon is a projectable one that has no charge left.
NoChargeLeft(wpn) ==
    /\ wpn # None
    /\ wpn.projectable # None
    /\ wpn.projectable.uses_left <= 0

\* The wielded weapon is a projectable one with a charge left.
HasCharge(wpn) ==
    /\ wpn # None
    /\ wpn.projectable # None
    /\ wpn.projectable.uses_left > 0

\* C28: requesting the special action of a projectable weapon whose
\* uses_left is <= 0 is rejected: it returns turn-not-consumed, leaves the
\* gamestate and uses_left unchanged and adds a message; the targeting
\* state is entered only when uses_left > 0.
C28_NoChargeRejected ==
    [][ /\ (act'.name = "HandleSpecialWeaponAction" /\ NoChargeLeft(weapon))
          => /\ ret' = FALSE
             /\ gamestate' = gamestate
             /\ weapon' = weapon
             /\ msgs' = <<"The staff fizzles with no charge left">>
             /\ turns' = turns
        /\ (gamestate'.name = "ProjectileTargetState"
            /\ gamestate.name # "ProjectileTargetState")
          => /\ act'.name = "HandleSpecialWeaponAction"
             /\ HasCharge(weapon) ]_vars

\* The special action of a staff with no charge left has just been rejected.
C28_Witness ==
    /\ act.name = "HandleSpecialWeaponAction"
    /\ NoChargeLeft(weapon)
    /\ gamestate.name = "ExploreState"
    /\ ret = FALSE
    /\ msgs = <<"The staff fizzles with no charge left">>

\* The targeting state has just been entered with a charged staff.
C28_WitnessTargeting ==
    /\ act.name = "HandleSpecialWeaponAction"
    /\ HasCharge(weapon)
    /\ gamestate.name = "ProjectileTargetState"

\* The generator a recorded draw was taken from: "random" for the calls on
\* the module random (random.random, random.choice), "rng" for the rolls of
\* the seeded RandomNumberGenerator the engine carries.
DrawnFrom(roll) ==
    IF roll[1] \in {"random.random", "random.choice"} THEN "random"
                                                       ELSE "rng"

\* C26: every probabilistic decision draws from the single seeded stream
\* (so that a seed and a command sequence fix the AI moves and the combat
\* outcomes): no draw of any step is taken from another generator.
C26_SingleSeededStream ==
    \A k \in 1..Len(rolls) : DrawnFrom(rolls[k]) = "rng"

\* A wandering creature has just decided to walk and picked a direction,
\* both with the module random.
C26_Witness ==
    /\ act.name = "WanderingAI"
    /\ Called(act, "BumpAction")
    /\ Len(rolls) >= 2
    /\ rolls[1][1] = "random.random"
    /\ rolls[2][1] = "random.choice"

\* At least one row or one column of cells lies between two rooms.
KeepApart(a, b) ==
    \/ a.x2 < b.x1 \/ b.x2 < a.x1
    \/ a.y2 < b.y1 \/ b.y2 < a.y1

\* (x, y) is a cell of the grid the builder works on.
InGrid(c) ==
    /\ c.x >= 0 /\ c.x <= BuilderHeight - 1
    /\ c.y >= 0 /\ c.y <= BuilderWidth - 1

\* C21: whatever rooms are drawn, no two rooms of the floor's room list
\* intersect, the margin of one cell included, and every cell dug for a
\* room lies inside the grid (and is walkable from then on).
C21_RoomsApartAndInGrid ==
    /\ builder.error = "none"
    /\ \A i, j \in 1..Len(builder.rooms) :
          i # j => KeepApart(builder.rooms[i], builder.rooms[j])
    /\ \A i \in 1..Len(builder.rooms) :
          \A x \in builder.rooms[i].x1..(builder.rooms[i].x2 - 1),
             y \in builder.rooms[i].y1..(builder.rooms[i].y2 - 1) :
              InGrid(Cell(x, y)) /\ builder.tiles[x][y]

\* place_rooms has placed as many rooms as the bound allows, after at least
\* one of its draws was refused.
C21_Witness ==
    /\ builder.stage = "place_rooms"
    /\ Len(builder.rooms) = NumRooms - 1
    /\ builder.curr_iterations > 0

\* Two cells share a side.
Adjacent(c, d) == Abs(c.x - d.x) + Abs(c.y - d.y) = 1

\* The walkable cells of a grid.
WalkableCells(t) == { c \in GridCells(t) : t[c.x][c.y] }

\* The cells of walk that can be reached from a cell of from by steps
\* between cells that share a side.
RECURSIVE ReachableFrom(_, _)
ReachableFrom(from, walk) ==
    LET more == from \cup { c \in walk : \E d \in from : Adjacent(c, d) }
    IN  IF more = from THEN from ELSE ReachableFrom(more, walk)

\* place_tunnels has returned.
TunnelsPlaced == builder.stage \in {"place_staircases", "build"}

\* C22: after place_walls, place_rooms and place_tunnels, for any number of
\* placed rooms >= 1, every cell of every room can be reached from every
\* cell of every other room through walkable tiles that share a side.
C22_RoomsConnected ==
    TunnelsPlaced
    => /\ Len(builder.rooms) >= 1
       /\ \A i \in 1..Len(builder.rooms) :
            \A c \in RoomCells(builder.rooms[i]) :
                \A j \in 1..Len(builder.rooms) :
                    RoomCells(builder.rooms[j])
                      \subseteq ReachableFrom({c}, WalkableCells(builder.tiles))

\* Four rooms were placed and the tunnels are dug.
C22_Witness ==
    /\ TunnelsPlaced
    /\ Len(builder.rooms) = NumRooms
    /\ Len(builder.tunnels) = NumRooms

\* A tunnel was dug between a cell of room a and a cell of room b.
TunnelBetween(a, b) ==
    \E k \in 1..Len(builder.tunnels) :
        LET t == builder.tunnels[k]
        IN  \/ t.r1_cell \in RoomCells(a) /\ t.r2_cell \in RoomCells(b)
            \/ t.r1_cell \in RoomCells(b) /\ t.r2_cell \in RoomCells(a)

\* C24: place_tunnels connects every room to the previous one: for each
\* room after the first of the room list, a tunnel is dug between a cell of
\* that room and a cell of the room before it.
C24_TunnelToPreviousRoom ==
    TunnelsPlaced
    => \A i \in 2..Len(builder.rooms) :
          TunnelBetween(builder.rooms[i], builder.rooms[i - 1])

\* Four rooms were placed, the tunnels are dug, and none of them joins the
\* second room to the first.
C24_Witness ==
    /\ TunnelsPlaced
    /\ Len(builder.rooms) = 4
    /\ ~TunnelBetween(builder.rooms[2], builder.rooms[1])

\* What place_tunnels does: every room is joined to the last but one room
\* of the list.
C24_TunnelToLastButOne ==
    (TunnelsPlaced /\ Len(builder.rooms) > 1)
    => \A i \in 1..Len(builder.rooms) :
          TunnelBetween(builder.rooms[i],
                        builder.rooms[Len(builder.rooms) - 1])

\* A non-blocking staircase entity of the floor under construction stands
\* on the cell.
StaircaseOn(cell) ==
    \E k \in 1..Len(builder.entities) :
        /\ builder.entities[k].kind = "staircase"
        /\ ~builder.entities[k].blocking
        /\ builder.entities[k].x = cell.x
        /\ builder.entities[k].y = cell.y

\* C25: place_staircases sets the descending staircase location to the last
\* room's center exactly when the descending flag is set and the ascending
\* one to the first room's center exactly when the ascending flag is set; a
\* direction not asked for stays None, and each location that is set has a
\* non-blocking staircase entity on that cell of the floor.
C25_StaircasesPerFlags ==
    builder.stage = "build"
    => LET first == builder.rooms[1]
           last == builder.rooms[Len(builder.rooms)]
           down == builder.descending_staircase_location
           up == builder.ascending_staircase_location
       IN  /\ down = (IF builder.flags.descending
                      THEN get_center_cell(last) ELSE None)
           /\ up = (IF builder.flags.ascending
                    THEN get_center_cell(first) ELSE None)
           /\ down # None => StaircaseOn(down)
           /\ up # None => StaircaseOn(up)
           /\ Len(builder.entities)
                = (IF builder.flags.descending THEN 1 ELSE 0)
                  + (IF builder.flags.ascending THEN 1 ELSE 0)

\* Both staircases were asked for on a floor of several rooms.
C25_Witness ==
    /\ builder.stage = "build"
    /\ Len(builder.rooms) > 1
    /\ builder.flags = [descending |-> TRUE, ascending |-> TRUE]
    /\ builder.descending_staircase_location
         # builder.ascending_staircase_location

\* Only the ascending staircase was asked for.
C25_WitnessOneDirection ==
    /\ builder.stage = "build"
    /\ builder.flags = [descending |-> FALSE, ascending |-> TRUE]
    /\ builder.descending_staircase_location = None

\* The cells of the straight run from a to b, which share a row or a column.
Leg(a, b) ==
    { Cell(x, y) : x \in (IF a.x <= b.x THEN a.x ELSE b.x)
                          ..(IF a.x <= b.x THEN b.x ELSE a.x),
                   y \in (IF a.y <= b.y THEN a.y ELSE b.y)
                          ..(IF a.y <= b.y THEN b.y ELSE a.y) }

\* C29: for every pair of cells r1 and r2, _get_tunnel_set returns a set
\* that contains both, is connected under side-sharing steps, is one
\* vertical leg and one horizontal leg meeting at a bend, and has exactly
\* |r1.x - r2.x| + |r1.y - r2.y| + 1 cells.
C29_TunnelSetIsAnL ==
    (builder.stage = "_get_tunnel_set" /\ result # None)
    => LET r1 == builder.r1_cell
           r2 == builder.r2_cell
           tunnel_set == result.returned
       IN  /\ r1 \in tunnel_set /\ r2 \in tunnel_set
           /\ ReachableFrom({r1}, tunnel_set) = tunnel_set
           /\ \E bend \in {Cell(r1.x, r2.y), Cell(r2.x, r1.y)} :
                 tunnel_set = Leg(r1, bend) \cup Leg(bend, r2)
           /\ Cardinality(tunnel_set)
                = Abs(r1.x - r2.x) + Abs(r1.y - r2.y) + 1

\* The tunnel set of two cells in different rows and columns, the first
\* below the second, was computed.
C29_Witness ==
    /\ builder.stage = "_get_tunnel_set"
    /\ result # None
    /\ builder.r1_cell.x > builder.r2_cell.x
    /\ builder.r1_cell.y < builder.r2_cell.y

\* place_rooms is still in its loop.
PlacingRooms == builder.stage = "place_rooms"

\* The last step left the loop of place_rooms.
LoopLeft == PlacingRooms /\ builder'.stage # "place_rooms"

\* The last step was a pass of the loop for a room that intersects one
\* already placed.
FailedPass == PlacingRooms /\ builder'.rooms = builder.rooms

\* C23 as stated: place_rooms always terminates, and it stops as soon as the
\* requested number of rooms is placed or after 250 consecutive failed
\* attempts (a successful placement resets the failure count).
C23_StopsAfter250Failures ==
    /\ PlacingRooms ~> ~PlacingRooms
    /\ [][ PlacingRooms =>
           /\ LoopLeft
              <=> (\/ Len(builder'.rooms) = builder.num_rooms
                   \/ (FailedPass /\ builder'.curr_iterations = 250))
           /\ (PlacingRooms /\ ~FailedPass) => builder'.curr_iterations = 0
         ]_vars

\* C23 as the code has it: place_rooms always terminates, and it stops as
\* soon as the requested number of rooms is placed or at the 251st
\* consecutive failed attempt, when the failure count exceeds 250 (a
\* successful placement resets the failure count).
C23_StopsAfter251Failures ==
    /\ PlacingRooms ~> ~PlacingRooms
    /\ [][ PlacingRooms =>
           /\ LoopLeft
              <=> (\/ Len(builder'.rooms) = builder.num_rooms
                   \/ (FailedPass /\ builder'.curr_iterations = 251))
           /\ (PlacingRooms /\ ~FailedPass) => builder'.curr_iterations = 0
           /\ FailedPass
              => builder'.curr_iterations = builder.curr_iterations + 1
         ]_vars

\* place_rooms gave up: fewer rooms than asked for, after 251 failed
\* attempts in a row.
C23_Witness ==
    /\ builder.stage = "place_tunnels"
    /\ Len(builder.rooms) < builder.num_rooms
    /\ builder.curr_iterations = 251

\* The entity list of floor k as the program sees it: the player is one
\* object, so a floor that still lists the player shows where the player is
\* now.
FloorList(k) ==
    LET ents == FloorEntities(k)
    IN  [i \in 1..Len(ents) |->
            IF ents[i].id = PLAYER_ID /\ PlayerIndex # NONE
            THEN entities[PlayerIndex] ELSE ents[i]]

\* Two different blocking entities of the list stand on one cell.
SharedCell(ents) ==
    \E i, j \in 1..Len(ents) :
        /\ ents[i].id # ents[j].id
        /\ ents[i].blocking /\ ents[j].blocking
        /\ ents[i].x = ents[j].x /\ ents[i].y = ents[j].y

\* C30: in every reachable state no two blocking entities of the same floor
\* occupy the same cell; walking, ally swap, attacks, creature spawning and
\* the placement of the player at a room's center on level transitions all
\* preserve this.
C30_NoSharedCell ==
    fatal = "none"
    => \A k \in 0..(Len(dungeon.floors) - 1) : ~SharedCell(FloorList(k))

\* The floor the player is on never has two blocking entities on one cell.
C30_CurrentFloorNoSharedCell == ~SharedCell(entities)

\* The player is on floor 1, on the cell that the living creature of floor 0
\* stands on in floor 0, and floor 0 still lists the player.
C30_Witness ==
    /\ fatal = "none"
    /\ dungeon.current_floor_index = 1
    /\ act.name = "BumpAction" /\ act.id = PLAYER_ID /\ ret
    /\ Occurrences(FloorEntities(0), PLAYER_ID) = 1
    /\ \E k \in 1..Len(FloorEntities(0)) :
          /\ FloorEntities(0)[k].kind = "creature"
          /\ FloorEntities(0)[k].blocking
          /\ StandsOn(FloorEntities(0)[k], Player(entities))

\* The health of the entity with the given id in a list.
HealthOf(ents, id) == EntityById(ents, id).health

\* C31: an activation of an enemy creature's AI (wandering or hostile) never
\* reduces the health of any entity other than the player: a creature's bump
\* into another creature does not damage it.
C31_AIDamagesOnlyPlayer ==
    [][ AIActivation(act')
        => \A k \in 1..Len(entities) :
              entities[k].id # PLAYER_ID
              => HealthOf(entities', entities[k].id) >= entities[k].health
      ]_vars

\* A creature's activation has just bumped into another creature and hit it:
\* the damage is dealt and nothing is logged.
C31_Witness ==
    /\ AIActivation(act)
    /\ act.calls = <<"BumpAction", "MeleeAction">>
    /\ Len(hits) = 1
    /\ msgs = <<>>
    /\ \E k \in 1..Len(entities) :
          /\ entities[k].id \notin {PLAYER_ID, act.id}
          /\ entities[k].x = EntityById(entities, act.id).x + act.dx
          /\ entities[k].y = EntityById(entities, act.id).y + act.dy
          /\ entities[k].health < StartHealth

\* A hostile creature of the current floor stands on the player's cell.
HostileOnPlayer ==
    \E k \in 1..Len(entities) :
        entities[k].ai = "hostile" /\ StandsOn(entities[k], Player(entities))

C33_GetItemNoneOutsideRange ==
    [][ act'.name = "get_item"
        => LET item_idx == act'.arg.index
           IN  /\ inventory' = inventory
               /\ IF item_idx \in 0..(Len(inventory) - 1)
                  THEN result' = [item |-> inventory[item_idx + 1]]
                  ELSE result' = None
      ]_vars

\* get_item was called with a negative index on an inventory that long, and
\* returned an item.
C33_Witness ==
    /\ act.name = "get_item"
    /\ act.arg.index < 0
    /\ 0 - act.arg.index <= Len(inventory)
    /\ result = [item |-> inventory[Len(inventory) + act.arg.index + 1]]

\* What get_item does: None exactly for the indices outside -size..size-1,
\* the item counted from the back for a negative index.
C33_GetItemPythonIndexing ==
    [][ act'.name = "get_item"
        => LET item_idx == act'.arg.index
               held == Len(inventory)
           IN  /\ inventory' = inventory
               /\ IF item_idx \in 0..(held - 1)
                  THEN result' = [item |-> inventory[item_idx + 1]]
                  ELSE IF item_idx \in (0 - held)..(0 - 1)
                  THEN result' = [item |-> inventory[held + item_idx + 1]]
                  ELSE result' = None
      ]_vars

\* The list in reverse order.
Reversed(seq) == [k \in 1..Len(seq) |-> seq[Len(seq) + 1 - k]]

\* C34: add_items adds items only while space is sufficient and returns the
\* items that could not be added: the size stays within max_slots, the input
\* list splits into the items added to the inventory and the remainder
\* returned (none lost, none duplicated), items stay out only when the
\* inventory is full, and the remainder is absent exactly when all fitted.
C34_AddItemsSplitsInput ==
    /\ [](size(inventory) <= max_slots)
    /\ [][ act'.name = "add_items"
           => \E n \in 0..Len(act'.arg.list) :
                LET arg == act'.arg.list
                    kept == SubSeq(arg, 1, n)
                    added == SubSeq(arg, n + 1, Len(arg))
                IN  /\ inventory' = inventory \o Reversed(added)
                    /\ n > 0 => result' = [list |-> kept]
                    /\ n > 0 => size(inventory') = max_slots
                    /\ n = 0 <=> result' = None
         ]_vars

\* add_items was called with two different items and one free slot: the
\* last one was added and the first one came back.
C34_Witness ==
    /\ act.name = "add_items"
    /\ Len(act.arg.list) = 2
    /\ act.arg.list[1] # act.arg.list[2]
    /\ result = [list |-> <<act.arg.list[1]>>]
    /\ size(inventory) = max_slots
    /\ inventory[Len(inventory)] = act.arg.list[2]

\* add_items was called with a list that fitted whole.
C34_WitnessAllFitted ==
    /\ act.name = "add_items"
    /\ Len(act.arg.list) = 2
    /\ result = None
    /\ size(inventory) >= 2

\* The last step was a Descend, respectively an Ascend, that changed floor.
Descended(a, m) ==
    a.name = "DescendStairsAction" /\ m = <<"You descend a level...">>

Ascended(a, m) ==
    a.name = "AscendStairsAction" /\ m = <<"You ascend a level...">>

\* C39: a successful Descend places the player on the center cell of the
\* entered floor's first room and a successful Ascend on the center cell of
\* the entered floor's last room; so a Descend immediately followed by an
\* Ascend returns the player to the original floor index and to the
\* descending-staircase cell the player left, and the deepest floor index
\* is raised by at most one.
C39_DescendAscendRoundTrip ==
    [][ /\ Descended(act', msgs')
           => /\ dungeon'.current_floor_index
                   = dungeon.current_floor_index + 1
              /\ StandsOn(Player(entities'),
                          current_floor(dungeon').first_room)
              /\ dungeon'.deepest_floor_index
                   \in { dungeon.deepest_floor_index,
                         dungeon.deepest_floor_index + 1 }
        /\ Ascended(act', msgs')
           => /\ dungeon'.current_floor_index
                   = dungeon.current_floor_index - 1
              /\ StandsOn(Player(entities'),
                          current_floor(dungeon').last_room)
              /\ dungeon'.deepest_floor_index = dungeon.deepest_floor_index
        /\ (Descended(act, msgs) /\ Ascended(act', msgs'))
           => LET original == dungeon'.current_floor_index
                  left == Player(dungeon.floors[original + 1].entities)
              IN  /\ StandsOn(Player(entities'), left)
                  /\ StandsOn(Player(entities'),
                        dungeon.floors[original + 1]
                          .descending_staircase_location)
      ]_vars

\* The player went down from a floor whose last room is not its first room
\* and came straight back up.
C39_Witness ==
    /\ Ascended(act, msgs)
    /\ dungeon.current_floor_index = 0
    /\ current_floor(dungeon).last_room # current_floor(dungeon).first_room
    /\ StandsOn(Player(entities), current_floor(dungeon).last_room)

\* The step sets the result of the Confirmation held in the named field.
Answers(field) ==
    IF field = "confirm_overwrite"
    THEN ~Confirmed(ui.confirm_overwrite) /\ Confirmed(ui'.confirm_overwrite)
    ELSE IF field = "confirm_delete"
    THEN ~Confirmed(ui.confirm_delete) /\ Confirmed(ui'.confirm_delete)
    ELSE ~Confirmed(ui.confirm_savequit) /\ Confirmed(ui'.confirm_savequit)

\* The step enters the name entry from the new-game menu with the cursor on
\* an occupied save slot.
OverwritesSave ==
    /\ gamestate.name = "StartNewGameMenuState"
    /\ act'.name = "EnterNameState"
    /\ PyIndex(NumSaves, gamestate.cursor_index_y) # NONE
    /\ ui.saves[PyIndex(NumSaves, gamestate.cursor_index_y)]

\* C35: SaveAndQuitAction, DeleteSaveAction and the name entry for an
\* occupied save slot are issued only by a state whose Confirmation for that
\* command has the result True, and a result becomes True only in a
\* ConfirmBoxState opened for that Confirmation, on a confirm key with the
\* cursor on option 0; so a declined box issues none of them.
C35_ConfirmationGated ==
    [][ /\ act'.name = "SaveAndQuitAction" => Confirmed(ui.confirm_savequit)
        /\ act'.name = "DeleteSaveAction" => Confirmed(ui.confirm_delete)
        /\ OverwritesSave => Confirmed(ui.confirm_overwrite)
        /\ \A field \in { "confirm_overwrite", "confirm_delete",
                          "confirm_savequit" } :
             Answers(field) =>
               /\ gamestate.name = "ConfirmBoxState"
               /\ ui.box = field
               /\ act'.key \in CONFIRM_KEYS
               /\ gamestate.cursor_index_y = 0 ]_vars

\* A save was deleted from the continue menu after its box was confirmed.
C35_Witness ==
    /\ act.name = "DeleteSaveAction"
    /\ act.state = "ContinueGameMenuState"
    /\ fatal = "none"

\* A save-and-quit box was closed on another option: nothing is issued and
\* the game goes on exploring.
C35_WitnessDeclined ==
    /\ act.state = "ConfirmBoxState"
    /\ act.key \in CONFIRM_KEYS
    /\ gamestate.name = "ExploreState"
    /\ ui.confirm_savequit = Confirmation(FALSE)

\* The new-game menu holds a confirmed overwrite that it has not read yet.
OverwriteConfirmed ==
    /\ fatal = "none"
    /\ gamestate.name = "StartNewGameMenuState"
    /\ Confirmed(ui.confirm_overwrite)

\* C36: in StartNewGameMenuState with confirm_overwrite.result True, the
\* next handle_input returns the name-entry state whatever the input is, and
\* confirm_overwrite is cleared.
C36_OverwriteConfirmedEntersName ==
    [][ OverwriteConfirmed =>
          /\ act'.name = "EnterNameState"
          /\ ui'.confirm_overwrite = None ]_vars

\* C36 (code): a cursor-up or cursor-down key moves the cursor and leaves the
\* confirmation in place; any other key consumes it, and the name entry
\* follows unless the key is the back key, the exit key, or the confirm key
\* or 'x' on an occupied slot, which are answered as without a confirmation.
C36_OverwriteConfirmedByKey ==
    [][ OverwriteConfirmed =>
          IF MovesSavesCursor(act'.key)
          THEN /\ act'.name = "DoNothingAction"
               /\ ui'.confirm_overwrite = ui.confirm_overwrite
          ELSE /\ ~Confirmed(ui'.confirm_overwrite)
               /\ act'.name = "EnterNameState"
                    <=> /\ act'.key \notin BACK_KEYS \cup EXIT_KEYS
                        /\ ~ /\ act'.key \in CONFIRM_KEYS \cup {"x"}
                             /\ ui.saves[Occupied(Menu)] ]_vars

\* A confirmed overwrite is waiting in the new-game menu.
C36_Witness ==
    /\ OverwriteConfirmed
    /\ act.state = "ConfirmBoxState"
    /\ act.key \in CONFIRM_KEYS

\* A key is handled by the name entry.
NameEntryHandles == fatal = "none" /\ gamestate.name = "EnterNameState"

\* C37: a confirm key in EnterNameState performs StartNewGameAction without
\* error and leaves the gamestate in ExploreState; the name never exceeds
\* 22 characters and backspace on an empty name changes nothing.
C37_ConfirmNameStartsGame ==
    [][ NameEntryHandles =>
          /\ act'.key \in CONFIRM_KEYS =>
               /\ fatal' = "none"
               /\ act'.name = "StartNewGameAction"
               /\ gamestate'.name = "ExploreState"
          /\ ui'.name_length <= MAX_NAME_LENGTH
          /\ (act'.key \in BACK_KEYS /\ ui.name_length = 0) =>
               UNCHANGED <<gamestate, ui>> ]_vars

\* C37 (code): the confirm key ends in a TypeError before any action is
\* performed; the other keys keep the name entry, the name within 0..22
\* characters, and backspace on an empty name changes nothing.
C37_ConfirmNameRaises ==
    [][ NameEntryHandles =>
          /\ act'.key \in CONFIRM_KEYS =>
               /\ fatal' = "TypeError"
               /\ act'.name = "None"
               /\ UNCHANGED <<gamestate, ui>>
          /\ act'.key \notin CONFIRM_KEYS =>
               /\ fatal' = "none"
               /\ gamestate'.name = "EnterNameState"
          /\ ui'.name_length \in 0..MAX_NAME_LENGTH
          /\ (act'.key \in BACK_KEYS /\ ui.name_length = 0) =>
               UNCHANGED <<gamestate, ui>>
          /\ (IsNameCharacter(act'.key)
                /\ ui.name_length = MAX_NAME_LENGTH) =>
               UNCHANGED <<gamestate, ui>> ]_vars

\* A name of the full length was confirmed.
C37_Witness ==
    /\ act.state = "EnterNameState"
    /\ act.key \in CONFIRM_KEYS
    /\ ui.name_length = MAX_NAME_LENGTH

\* A key is handled by the level-up selection.
SelectingAttribute ==
    fatal = "none" /\ gamestate.name = "LevelUpSelectionState"

\* The attributes the step raised by one, none of the others changing.
Incremented ==
    { a \in DOMAIN ui.leveler.attributes :
        ui'.leveler.attributes[a] = ui.leveler.attributes[a] + 1 }

\* C38: in the level-up selection no input changes the gamestate except a
\* confirm key that performs LevelUpAction; that action gains one level and
\* increments one attribute, and afterwards the gamestate is ExploreState
\* exactly when the leveler can no longer level up, the selection otherwise.
C38_LevelUpSelectionExit ==
    [][ SelectingAttribute =>
          /\ gamestate'.name # "LevelUpSelectionState" =>
               /\ act'.name = "LevelUpAction"
               /\ act'.key \in CONFIRM_KEYS
          /\ act'.name # "LevelUpAction" => ui'.leveler = ui.leveler
          /\ act'.name = "LevelUpAction" =>
               /\ act'.key \in CONFIRM_KEYS
               /\ ui'.leveler.level = ui.leveler.level + 1
               /\ Cardinality(Incremented) = 1
               /\ \A a \in DOMAIN ui.leveler.attributes \ Incremented :
                    ui'.leveler.attributes[a] = ui.leveler.attributes[a]
               /\ gamestate'.name = IF can_level_up(ui'.leveler)
                                    THEN "LevelUpSelectionState"
                                    ELSE "ExploreState" ]_vars

\* The last level-up due was taken and the player explores again.
C38_Witness ==
    /\ act.name = "LevelUpAction"
    /\ act.state = "LevelUpSelectionState"
    /\ gamestate.name = "ExploreState"
    /\ ui.leveler.level = 1 + MaxLevelUps

\* A level-up was taken with another one due: the selection stays open.
C38_WitnessStays ==
    /\ act.name = "LevelUpAction"
    /\ gamestate.name = "LevelUpSelectionState"
    /\ can_level_up(ui.leveler)

C40_WitnessWin ==
    /\ act.name = "OnPlayerWinAction"
    /\ ui.saved = "VICTORY"

====
